---- MODULE Spec2Model ----
(***************************************************************************)
(* Charybdis block cipher: the scalar round engine (src/src/charybdis.c)   *)
(* and the AVX2 batch engine with its context life cycle                   *)
(* (src/src/charybdis_avx2.c).                                             *)
(*                                                                         *)
(* A uint32_t is the pair <<hi, lo>> of its 16-bit halves (value           *)
(* hi * 65536 + lo), so that every operation keeps the 32-bit width; a     *)
(* byte is a number in 0..255; a buffer is a sequence of bytes; a 4 x 4    *)
(* matrix is a sequence of four rows of four entries.                      *)
(***************************************************************************)
EXTENDS Integers, Sequences, FiniteSets, TLC

(***************************************************************************)
(* 32-bit word arithmetic                                                  *)
(***************************************************************************)
Pow2(n) == 2 ^ n

\* the C operator ^ on 4-bit digits: Xor4[a + 1][b + 1] = a ^ b
Xor4 ==
  <<
    << 0,  1,  2,  3,  4,  5,  6,  7,  8,  9, 10, 11, 12, 13, 14, 15>>,
    << 1,  0,  3,  2,  5,  4,  7,  6,  9,  8, 11, 10, 13, 12, 15, 14>>,
    << 2,  3,  0,  1,  6,  7,  4,  5, 10, 11,  8,  9, 14, 15, 12, 13>>,
    << 3,  2,  1,  0,  7,  6,  5,  4, 11, 10,  9,  8, 15, 14, 13, 12>>,
    << 4,  5,  6,  7,  0,  1,  2,  3, 12, 13, 14, 15,  8,  9, 10, 11>>,
    << 5,  4,  7,  6,  1,  0,  3,  2, 13, 12, 15, 14,  9,  8, 11, 10>>,
    << 6,  7,  4,  5,  2,  3,  0,  1, 14, 15, 12, 13, 10, 11,  8,  9>>,
    << 7,  6,  5,  4,  3,  2,  1,  0, 15, 14, 13, 12, 11, 10,  9,  8>>,
    << 8,  9, 10, 11, 12, 13, 14, 15,  0,  1,  2,  3,  4,  5,  6,  7>>,
    << 9,  8, 11, 10, 13, 12, 15, 14,  1,  0,  3,  2,  5,  4,  7,  6>>,
    <<10, 11,  8,  9, 14, 15, 12, 13,  2,  3,  0,  1,  6,  7,  4,  5>>,
    <<11, 10,  9,  8, 15, 14, 13, 12,  3,  2,  1,  0,  7,  6,  5,  4>>,
    <<12, 13, 14, 15,  8,  9, 10, 11,  4,  5,  6,  7,  0,  1,  2,  3>>,
    <<13, 12, 15, 14,  9,  8, 11, 10,  5,  4,  7,  6,  1,  0,  3,  2>>,
    <<14, 15, 12, 13, 10, 11,  8,  9,  6,  7,  4,  5,  2,  3,  0,  1>>,
    <<15, 14, 13, 12, 11, 10,  9,  8,  7,  6,  5,  4,  3,  2,  1,  0>>
  >>

RECURSIVE XorDigits(_, _, _)
XorDigits(x, y, k) ==
  IF k = 0 THEN 0
  ELSE Xor4[(x % 16) + 1][(y % 16) + 1] + (16 * XorDigits(x \div 16, y \div 16, k - 1))
Xor16(x, y) == XorDigits(x, y, 4)

\* uint32_t ^, + and - (the last two wrap mod 2^32)
XOR32(a, b) == <<Xor16(a[1], b[1]), Xor16(a[2], b[2])>>
ADD32(a, b) ==
  LET lo == a[2] + b[2]
  IN  <<(a[1] + b[1] + (lo \div 65536)) % 65536, lo % 65536>>
\* faulty variant: the borrow out of the low half is dropped
SUB32DropsBorrow(a, b) == <<(65536 + a[1] - b[1]) % 65536, (65536 + a[2] - b[2]) % 65536>>
SUB32(a, b) ==
  LET lo == 65536 + a[2] - b[2]
      hi == 65536 + a[1] - b[1] - (IF lo < 65536 THEN 1 ELSE 0)
  IN  <<hi % 65536, lo % 65536>>

\* uint32_t x >> n and x << n for 0 < n < 32
SHR32(x, n) ==
  IF n < 16
  THEN <<x[1] \div Pow2(n), (x[2] \div Pow2(n)) + ((x[1] % Pow2(n)) * Pow2(16 - n))>>
  ELSE <<0, x[1] \div Pow2(n - 16)>>
SHL32(x, n) ==
  IF n < 16
  THEN <<((x[1] % Pow2(16 - n)) * Pow2(n)) + (x[2] \div Pow2(16 - n)),
         (x[2] % Pow2(16 - n)) * Pow2(n)>>
  ELSE <<(x[2] % Pow2(32 - n)) * Pow2(n - 16), 0>>

\* (x << n) | (x >> (32 - n)) and (x >> n) | (x << (32 - n)): the two shifted
\* values have no set bit in common, so their bitwise or is their sum
ROTL(x, n) ==
  LET l == SHL32(x, n)
      r == SHR32(x, 32 - n)
  IN  <<l[1] + r[1], l[2] + r[2]>>
ROTR(x, n) ==
  LET r == SHR32(x, n)
      l == SHL32(x, 32 - n)
  IN  <<r[1] + l[1], r[2] + l[2]>>

Zero32 == <<0, 0>>

(***************************************************************************)
(* Constant tables                                                         *)
(***************************************************************************)
CHARYBDIS_RC ==
  <<
   <<\h49E4, \hAB09>>, <<\h5162, \hDB3D>>, <<\h65C1, \h80C3>>, <<\h6B33, \h7C7C>>,
   <<\h0947, \hE8C2>>, <<\h0C54, \h2228>>, <<\hBD2C, \h29B1>>, <<\h580D, \hC135>>,
   <<\h9920, \h4A36>>, <<\h17C5, \hD802>>, <<\hA400, \h842E>>, <<\hE9C4, \hE23C>>,
   <<\hC12E, \hD428>>, <<\hA2DA, \hB568>>, <<\h9EBE, \h07BB>>, <<\h7289, \h8513>>,
   <<\hF76D, \h00FD>>, <<\h9C6F, \h794B>>, <<\h7D5A, \hD44F>>, <<\h47B5, \h6292>>,
   <<\hE602, \h5A3D>>, <<\hEDF8, \h0720>>, <<\h20C6, \h57F1>>, <<\h4395, \h162B>>,
   <<\h06E4, \h6590>>, <<\hBC51, \h6693>>, <<\h2C09, \h3E26>>, <<\hB167, \h8516>>,
   <<\hE72C, \h28E9>>, <<\hDD05, \hE86A>>, <<\hAED3, \h1295>>, <<\h40C3, \hD677>>,
   <<\h837F, \hD877>>, <<\hB619, \h50BA>>, <<\h674C, \h07A4>>, <<\h6B42, \h79F7>>,
   <<\hE69C, \hB72B>>, <<\hBE47, \h09DC>>, <<\hB428, \h5315>>, <<\hD7C7, \h13E9>>,
   <<\h4AEB, \h3B54>>, <<\h0EE6, \h11D8>>, <<\h89DD, \h7EEB>>, <<\h042F, \h4463>>,
   <<\h7FCA, \h132F>>, <<\hC12B, \h9096>>, <<\h64CE, \h30E1>>, <<\hC715, \hF52C>>,
   <<\h5149, \hAA03>>, <<\h510C, \h5880>>, <<\h7BD9, \hB34A>>, <<\hC00D, \h59E7>>,
   <<\h736B, \hBBFF>>, <<\h0667, \h0F0F>>, <<\h032E, \h7564>>, <<\hB2BC, \h5FFA>>,
   <<\h620F, \h197C>>, <<\hF308, \h8945>>, <<\hE362, \hE3E9>>, <<\h4864, \hDE7B>>,
   <<\h33A5, \h665A>>, <<\hF34D, \hB2DF>>, <<\h2138, \h2BCC>>, <<\hB49B, \hA35F>>,
   <<\h7D27, \h734F>>, <<\hA6DB, \h1156>>, <<\hF2EC, \h4AF1>>, <<\h690F, \hD2F6>>,
   <<\hF54A, \hA809>>, <<\h247A, \h122A>>, <<\h8527, \h4381>>, <<\hD13A, \h347F>>,
   <<\hACEB, \h5617>>, <<\h590A, \hE3E9>>, <<\h57CC, \hFAE3>>, <<\hD106, \h0AF1>>,
   <<\hC40E, \h0EAF>>, <<\h545A, \h4DCA>>, <<\hB8AC, \h6F3F>>, <<\hB098, \h5466>>,
   <<\hDD56, \h5121>>, <<\hE11B, \hED19>>, <<\hF147, \h71AE>>, <<\hD7AD, \h1ABE>>,
   <<\hD8B4, \h8FA2>>, <<\h1D54, \hACB3>>, <<\h3C33, \h87A9>>, <<\h3655, \hD387>>,
   <<\h948C, \h68CB>>, <<\h9F94, \hF38C>>, <<\hF0B4, \hFBC0>>, <<\h1EB9, \hD2C0>>,
   <<\h2322, \h98C8>>, <<\h6595, \h423C>>, <<\h1406, \h56A7>>, <<\h0D03, \h2A20>>,
   <<\h3AF6, \h3AF5>>, <<\hDB8D, \h3AE4>>, <<\h5E57, \h2E5E>>, <<\hC8DF, \h57DD>>,
   <<\hD62E, \h118C>>, <<\h6673, \hEA4C>>, <<\h82DD, \h067B>>, <<\h7EB6, \hA051>>,
   <<\h1925, \hAA25>>, <<\h1399, \h1B1A>>, <<\h286D, \hA015>>, <<\h9E61, \h0395>>,
   <<\hB21B, \h048F>>, <<\hDF01, \hBB8E>>, <<\h91A9, \h10D2>>, <<\h3904, \h593A>>,
   <<\h923D, \hF194>>, <<\h2AA4, \hC3D3>>, <<\h2AD9, \hB207>>, <<\h514F, \h0D45>>,
   <<\h34B1, \hE6CB>>, <<\h6771, \h7390>>, <<\hEBA7, \h5EC9>>, <<\h0694, \hAC61>>,
   <<\hD5C1, \h975D>>, <<\h29BB, \h0175>>, <<\h33A2, \h4D43>>, <<\h7AA5, \h6690>>,
   <<\hB42F, \h19B9>>, <<\h72A9, \hF181>>, <<\h7AD6, \h396D>>, <<\hEBAC, \h8CCC>>,
   <<\hA244, \h1762>>, <<\hFBB4, \hAADB>>, <<\h5138, \h2FBE>>, <<\h8FCA, \h8864>>,
   <<\h9B2C, \hF90F>>, <<\h68E5, \h5D51>>, <<\h6592, \h1959>>, <<\h09B5, \hFAD3>>,
   <<\hFAB6, \hE9A8>>, <<\h515B, \h2AD5>>, <<\h30D9, \h723F>>, <<\h55AE, \hB76A>>,
   <<\hDA13, \h41F0>>, <<\hE151, \hE097>>, <<\hC7E7, \h88CE>>, <<\h28F2, \hA0F4>>,
   <<\h413A, \h9C4D>>, <<\hCEC6, \h1977>>, <<\h62FD, \h8051>>, <<\hEDE2, \hBB9F>>,
   <<\h5DB3, \h4734>>, <<\hE870, \h77DB>>, <<\h46A1, \h0D36>>, <<\h9B94, \hF213>>,
   <<\h9AD5, \h7DDC>>, <<\h3913, \hD8E0>>, <<\hE784, \h2DE3>>, <<\h0A62, \hE385>>,
   <<\hC5DA, \hA02D>>, <<\hC55B, \hC5CF>>, <<\hD7B0, \h077C>>, <<\hC57C, \h652B>>,
   <<\h33B6, \hB02E>>, <<\h8BBF, \hA1C6>>, <<\hCD04, \h2F60>>, <<\hBCD0, \h8D1D>>,
   <<\h5FF6, \h4385>>, <<\h6690, \h1B81>>, <<\h9097, \h86BD>>, <<\h3C2D, \h5400>>,
   <<\hF07C, \h8B77>>, <<\h663E, \h39B2>>, <<\hC8AC, \h04CF>>, <<\hBC77, \h27D6>>,
   <<\h5EFC, \h65DE>>, <<\h3417, \h7ED5>>, <<\h520E, \h6C98>>, <<\h4CBE, \hDC3E>>,
   <<\hA7DB, \h8FD4>>, <<\h85AB, \hC9E9>>, <<\h860D, \h16E2>>, <<\h2ECD, \h8B84>>,
   <<\hCE73, \h11F6>>, <<\h20CA, \h2785>>, <<\hD3BD, \hF31A>>, <<\hF461, \hF125>>,
   <<\h5597, \hBD30>>, <<\h77E1, \h0FF1>>, <<\h7629, \h0EBB>>, <<\h75A9, \hD3BA>>,
   <<\hAFD3, \h3300>>, <<\hBD50, \h0787>>, <<\h7CD4, \hA812>>, <<\h5653, \h82A5>>,
   <<\h2C9E, \h95F5>>, <<\h1BB5, \h5181>>, <<\h73DE, \h6268>>, <<\h3C2C, \h31BB>>,
   <<\hBF55, \h539E>>, <<\h184D, \hED72>>, <<\h8DC1, \h4C7E>>, <<\hE52B, \h9F71>>,
   <<\h1C3D, \hF327>>, <<\hCE86, \hA422>>, <<\h0994, \h3884>>, <<\h7889, \h1648>>,
   <<\hC59D, \h07FD>>, <<\h404C, \h8175>>, <<\h1F94, \h9F8E>>, <<\hF0A9, \hDE13>>,
   <<\hE27D, \h7CAB>>, <<\h732A, \h4516>>, <<\h9C3C, \hE306>>, <<\h1F6D, \h3F1C>>,
   <<\hBFBD, \hFA4E>>, <<\h690B, \h75F2>>, <<\h07A4, \hE8CC>>, <<\h926C, \hAD0E>>,
   <<\hB8A5, \h65F7>>, <<\h31AA, \hD54E>>, <<\h91C6, \hEAD8>>, <<\h4C98, \hE2DF>>,
   <<\hFBD1, \h4903>>, <<\h84DC, \h674D>>, <<\hFAE1, \h9853>>, <<\hEEEE, \h29DE>>,
   <<\hB466, \hF338>>, <<\h8B2C, \hCA68>>, <<\hD2BE, \hB3C1>>, <<\hBDFC, \h1B04>>,
   <<\h0462, \h3E3E>>, <<\h632C, \h6C69>>, <<\hCEC6, \h1FB4>>, <<\h1495, \h22EE>>,
   <<\h178B, \h9848>>, <<\hC3E9, \h95B9>>, <<\h9A8D, \h8A65>>, <<\h78A3, \h5E05>>,
   <<\hCBE1, \h04B9>>, <<\hB3EE, \h5FCD>>, <<\h481E, \hB903>>, <<\h21CF, \h75FD>>,
   <<\hADE8, \hA65B>>, <<\h9FF9, \hF97D>>, <<\hAF14, \h6F30>>, <<\h0CEB, \hF587>>,
   <<\hA2D2, \h6B39>>, <<\h239C, \h59F7>>, <<\hC570, \h85BE>>, <<\hDD4A, \hB6C9>>,
   <<\h1D8B, \h92C3>>, <<\h286D, \h4304>>, <<\h0C91, \hF7F8>>, <<\hD246, \h786A>>,
   <<\hF007, \hC35F>>, <<\hC05D, \h4640>>, <<\h7456, \h4490>>, <<\hAC70, \h28E4>>,
   <<\h2BB8, \h17BB>>, <<\hEC81, \h3385>>, <<\h189F, \h9BDC>>, <<\h7664, \h9CA9>>,
   <<\h6E61, \h9411>>, <<\h068B, \h3CCA>>, <<\h22F3, \hC66D>>, <<\h8CF1, \hA317>>,
   <<\h981E, \hFC2B>>, <<\hBFA3, \h2D9C>>, <<\hB414, \hCC4A>>, <<\hE4FD, \h0DDF>>,
   <<\hF2A8, \h5859>>, <<\hFC73, \hA02C>>, <<\h9FB1, \h9147>>, <<\hC2CE, \h9410>>,
   <<\h576A, \h47DC>>, <<\h1DB9, \hF29C>>, <<\h1CA4, \h9FCE>>, <<\h5FDC, \h4D4C>>,
   <<\hB9F8, \h5726>>, <<\h92AA, \h70BD>>, <<\h79BD, \hAA65>>, <<\h1D9C, \h262D>>,
   <<\h651B, \h144C>>, <<\h3D53, \hA967>>, <<\h5390, \h91F8>>, <<\hAFA3, \hAA05>>,
   <<\h3A4A, \h846D>>, <<\h832F, \h42E3>>, <<\h6B24, \h9C56>>, <<\hD5D2, \hBC93>>,
   <<\hC4C8, \h03F8>>, <<\h167C, \h8A49>>, <<\h9DBE, \h90F9>>, <<\h2267, \hE183>>,
   <<\hAC79, \hE064>>, <<\h0716, \h3F07>>, <<\h3A3F, \h7370>>, <<\hD09A, \h578F>>,
   <<\h47D7, \h5DD9>>, <<\h45B5, \h2F1E>>, <<\h0454, \hA224>>, <<\hA99B, \h26E0>>,
   <<\hB24C, \h0ACD>>, <<\h42A1, \hA1B3>>, <<\h48DE, \hC938>>, <<\hDE29, \h4680>>,
   <<\h4E73, \hFB0F>>, <<\hC7F5, \hE823>>, <<\hC3FF, \h5E97>>, <<\h57CA, \h69CC>>,
   <<\hF4BC, \h726F>>, <<\hA414, \hFACD>>, <<\hF26D, \h5DBA>>, <<\hE444, \h5DB7>>,
   <<\h0230, \h6C0B>>, <<\h5F5A, \h2FF2>>, <<\h9EB7, \h66EF>>, <<\h1B6B, \h4556>>,
   <<\h5937, \h9BDA>>, <<\hFD2D, \h0967>>, <<\hD9A8, \h216D>>, <<\h78A2, \h02C0>>,
   <<\h7AF7, \hDB27>>, <<\h25B6, \h9D6F>>, <<\hAF22, \hC630>>, <<\h4EB6, \hEF72>>,
   <<\h7CD2, \h8377>>, <<\h8AA1, \hDE7A>>, <<\h4A42, \h32E0>>, <<\hD50F, \h0E91>>,
   <<\hF812, \h218E>>, <<\h2C8E, \h27E4>>, <<\hEA1C, \h4063>>, <<\hDC3E, \h0E71>>,
   <<\hF8A7, \h833C>>, <<\h9AFB, \hD5A4>>, <<\h98D7, \h4BAD>>, <<\h2EC7, \hB1D5>>,
   <<\hA063, \h9FA4>>, <<\h000B, \h024C>>, <<\hC62B, \h50A0>>, <<\hF790, \h56ED>>,
   <<\h1B3D, \hE3DE>>, <<\hBFA2, \h9EE9>>, <<\hBFAC, \h297E>>, <<\h74D9, \hFE5C>>,
   <<\h1D60, \hE54D>>, <<\h279B, \h4268>>, <<\h51B9, \hD6BB>>, <<\hC88D, \h1F37>>,
   <<\h28EC, \h8BDE>>, <<\h36E5, \h6538>>, <<\h5DA0, \hD743>>, <<\h081F, \h73BC>>
  >>

C_INIT ==
  <<
   <<\h613A, \h9ABD>>, <<\hD243, \h4FD8>>, <<\hDEDF, \h9481>>, <<\h2940, \hB05C>>,
   <<\hA9C7, \hA722>>, <<\hED6D, \h094F>>, <<\hC04A, \h5F78>>, <<\hBED3, \hD4EA>>,
   <<\hEB2C, \h1324>>, <<\h08A4, \h263C>>, <<\hB4BA, \h8A0E>>, <<\hE0F2, \hEAC4>>,
   <<\h458C, \hF930>>, <<\h9CC9, \hAA68>>, <<\h0C63, \h0F1B>>, <<\h61E5, \hC7E3>>,
   <<\h5C5E, \hD019>>, <<\hD5E4, \h42C0>>, <<\h1BEB, \h9747>>, <<\hA60C, \hF0DE>>,
   <<\h0267, \hDB62>>, <<\hA5C3, \hA9C6>>, <<\hEFD1, \hCC0A>>, <<\hCABC, \hC8D1>>
  >>

RC_F ==
  <<
   <<\h87EF, \h983E>>, <<\h4C33, \hCE4B>>, <<\hD4DE, \h68D1>>, <<\h48E5, \hE385>>,
   <<\h7982, \h39CA>>, <<\hAA42, \h79BD>>, <<\h3904, \h19A6>>, <<\h5CBB, \hEF47>>,
   <<\h745F, \h358C>>, <<\hA618, \h02E8>>, <<\hC02B, \h7871>>, <<\hDE95, \hBE90>>,
   <<\hE160, \hDE99>>, <<\h34B2, \hB34C>>, <<\hB767, \h07D0>>, <<\h5096, \h856F>>,
   <<\h1D22, \hF712>>, <<\hD899, \hB75A>>, <<\h6E02, \hA988>>, <<\h26FD, \h16DC>>,
   <<\hC2C5, \h2DEA>>, <<\h637C, \hFB4F>>, <<\h6F1E, \hDF4D>>, <<\hCBF3, \h17CF>>,
   <<\h63E6, \h123F>>, <<\h113B, \hE322>>, <<\h97D0, \h1B1E>>, <<\hF9B2, \hDE10>>,
   <<\h3BFB, \hE353>>, <<\h00AE, \h19AC>>, <<\h3798, \h22D4>>, <<\h4F8D, \h80FC>>,
   <<\h98C7, \h33EE>>, <<\hBB41, \hCAC3>>, <<\h83A0, \hEF8E>>, <<\h1011, \h84E3>>,
   <<\hFB29, \h3A75>>, <<\h8682, \hD077>>, <<\h4B6B, \hD920>>, <<\h0F52, \h1E1D>>,
   <<\hD9B4, \hC1D0>>, <<\h02AB, \h52FB>>, <<\h01A8, \h2B82>>, <<\hE05D, \h60AB>>,
   <<\h7183, \h62E4>>, <<\h62DC, \h03A7>>, <<\h20F6, \hEE26>>, <<\hF780, \h5654>>,
   <<\h282D, \hAF79>>, <<\h6A9B, \hA185>>, <<\hCC74, \hD6C7>>, <<\hA959, \hE475>>,
   <<\h330A, \hDCC0>>, <<\h2B27, \h748D>>, <<\hA504, \h8432>>, <<\h91D6, \h4C6E>>,
   <<\hEDEB, \hE8CE>>, <<\h8B4E, \h252F>>, <<\h5A66, \h271A>>, <<\h8499, \hA351>>,
   <<\h63AA, \h49B0>>, <<\h7B87, \h29B5>>, <<\hE926, \hB00D>>, <<\hC42B, \hC689>>
  >>

KSC ==
  <<
   <<\h5614, \hCE22>>, <<\h07CC, \h5F85>>, <<\h6EC4, \hFA38>>, <<\hE764, \hDB84>>,
   <<\hD462, \h6EB5>>, <<\h459D, \h17FB>>, <<\h20D1, \h77A8>>, <<\h11A1, \hDB20>>,
   <<\h96EA, \hB452>>, <<\hF742, \h2063>>, <<\hF108, \h7E71>>, <<\hE49B, \hDFEF>>,
   <<\h2D9D, \h3608>>, <<\h55F2, \h9039>>, <<\hD499, \h1F7E>>, <<\h9864, \h369F>>,
   <<\h9FE3, \hC339>>, <<\h7D0A, \h4299>>, <<\h8235, \h82DC>>, <<\hC577, \h0C14>>,
   <<\hD946, \h061D>>, <<\hDA06, \h6059>>, <<\hA5C7, \h53D5>>, <<\hCCBE, \h0152>>,
   <<\h909B, \hEE86>>, <<\hEA33, \hB516>>, <<\h097C, \hF62E>>, <<\h4D17, \hE7F0>>,
   <<\h508A, \h2010>>, <<\h263E, \h2062>>, <<\hEA65, \hA8B2>>, <<\h3102, \hD862>>,
   <<\h61CE, \h0678>>, <<\h1AEC, \h974A>>, <<\h4284, \h0287>>, <<\h3367, \h4A1B>>,
   <<\hB70F, \h54F2>>, <<\h41E9, \h9C0F>>, <<\h60F7, \h80CE>>, <<\h677F, \h5CB6>>,
   <<\hD943, \h1C7A>>, <<\hE6CF, \h1B07>>, <<\hE67F, \h3B10>>, <<\h5FFC, \h8732>>,
   <<\h414F, \h2AF5>>, <<\hA5C4, \h980D>>, <<\h0971, \h379B>>, <<\hD0E3, \h6DA1>>,
   <<\hC2D8, \hC2D3>>, <<\h65BB, \hAC18>>, <<\h8CCC, \h1749>>, <<\h0F0F, \hE003>>,
   <<\h61CD, \hC953>>, <<\h20F3, \hD7A3>>, <<\hE472, \hE647>>, <<\h9A4B, \h0890>>,
   <<\hA427, \h0EBB>>, <<\hA1AE, \h6D52>>, <<\h1C05, \h3ABB>>, <<\hFE42, \hA158>>,
   <<\hD084, \h1FD3>>, <<\h28A2, \hE6FB>>, <<\h723B, \h41F1>>, <<\h21AB, \h75E3>>,
   <<\h5A7F, \hBF1E>>, <<\h4B67, \h8D96>>, <<\h241F, \h9CAD>>, <<\h73B2, \hE565>>,
   <<\hB036, \h2B6B>>, <<\hF832, \h0AAC>>, <<\hCB67, \h64C0>>, <<\hFAE7, \h5958>>,
   <<\h2F42, \h2848>>, <<\h76F3, \h8142>>, <<\h3770, \hE09D>>, <<\h65E0, \h6F11>>,
   <<\hE231, \h8D20>>, <<\hFABA, \hA37D>>, <<\h4479, \hFED1>>, <<\hC217, \h682D>>,
   <<\hE23E, \h85E1>>, <<\h3752, \hE44C>>, <<\h3AD1, \h374B>>, <<\h6D6A, \h351B>>,
   <<\hA6B2, \hDDF8>>, <<\h9A56, \h6308>>, <<\hD23D, \h4EF4>>, <<\h8E77, \hC6A7>>,
   <<\hC88C, \h0DCD>>, <<\h1B7F, \hEA33>>, <<\h4525, \hAD2C>>, <<\h5B79, \h3B3F>>,
   <<\h6CDB, \hB3BA>>, <<\h9B93, \h1CCE>>, <<\hB1AB, \h7BDF>>, <<\h314F, \h4F7A>>,
   <<\hAA88, \hCD0A>>, <<\hCF6F, \h9F8C>>, <<\hF6E1, \h2F82>>, <<\hDF9E, \h0EED>>,
   <<\hCDF9, \h396B>>, <<\h1543, \hF1A8>>, <<\hF561, \hCE7F>>, <<\hF65A, \h12E6>>,
   <<\h4046, \h0C4A>>, <<\h3B23, \hB847>>, <<\h3003, \h9D1E>>, <<\h21A1, \h475B>>,
   <<\hFD43, \hD4DC>>, <<\h33A7, \h2481>>, <<\hCEDE, \hF79C>>, <<\h3A63, \hC446>>,
   <<\hBA18, \h115E>>, <<\h30FA, \h9A0E>>, <<\h0D70, \hB980>>, <<\hDF6B, \hF6B7>>,
   <<\h10B4, \h2F72>>, <<\hFB01, \h6F7E>>, <<\h91D3, \h082E>>, <<\hA59E, \h42DD>>,
   <<\h6E30, \hFB19>>, <<\h3217, \h37F1>>, <<\h3009, \hE00F>>, <<\h21CE, \hA5D7>>,
   <<\h7880, \h46D0>>, <<\h59F8, \hA99A>>, <<\hBAC4, \h44DB>>, <<\h5724, \hF3A5>>,
   <<\h8642, \h7171>>, <<\hF7C0, \h2010>>, <<\h1DD1, \hB179>>, <<\hFEFA, \h165C>>,
   <<\h908E, \h98EB>>, <<\hC442, \h6E82>>, <<\h40E3, \hB44C>>, <<\h434A, \h6DCB>>,
   <<\hE1D3, \h0048>>, <<\h4000, \h76E3>>, <<\hA72B, \h4BCA>>, <<\hA064, \h53F9>>,
   <<\hC8C0, \h587F>>, <<\hF8D6, \h46BA>>, <<\h9679, \hB01B>>, <<\h43BA, \hCCC8>>,
   <<\hC92C, \h635E>>, <<\h57D2, \h9704>>, <<\h2CDF, \h8FD5>>, <<\h2937, \h111D>>,
   <<\h8678, \hEA7C>>, <<\hEB15, \hA814>>, <<\h362A, \h59A6>>, <<\hF092, \h9C61>>,
   <<\h3C9C, \h4D35>>, <<\hA461, \h3E57>>, <<\h4D72, \h36C2>>, <<\hE8B3, \h6BFB>>,
   <<\h5687, \hCD76>>, <<\h161B, \hF8B6>>, <<\hEF90, \h1EF8>>, <<\h38F4, \h4734>>,
   <<\hC851, \h8A6F>>, <<\hA7B6, \h11AD>>, <<\hA169, \h66E6>>, <<\hE0A5, \hF109>>,
   <<\h90CC, \h6051>>, <<\h7050, \h646B>>, <<\h189D, \hCA33>>, <<\h5FCC, \h2216>>,
   <<\h0338, \hF4FF>>, <<\h37A3, \h15C9>>, <<\h269F, \h159B>>, <<\h5B8F, \h44DF>>,
   <<\hB01A, \h2206>>, <<\h1036, \hB4B5>>, <<\hCE8B, \hBC3D>>, <<\h3D90, \h344D>>,
   <<\hAB73, \h84E3>>, <<\h1DA0, \h431D>>, <<\hF4D6, \h75F0>>, <<\h3605, \hDF7C>>,
   <<\h042C, \hF7BF>>, <<\hBB72, \h1034>>, <<\h8B43, \h51A1>>, <<\h7CCD, \hFF90>>,
   <<\h3077, \hFCCC>>, <<\h2BE5, \h99E6>>, <<\h3F33, \h0325>>, <<\h46CE, \h60E5>>,
   <<\hF21F, \h7C09>>, <<\h6D43, \hFC1D>>, <<\h1B77, \h0BBD>>, <<\hAC82, \hFEE5>>,
   <<\h78AD, \hD8A7>>, <<\hC225, \h95A0>>, <<\h3F12, \h39A6>>, <<\h2A03, \hB602>>,
   <<\h8502, \h63F6>>, <<\h92BC, \h209F>>, <<\h78C3, \hDDC1>>, <<\hF701, \hBB93>>,
   <<\hEAB1, \h25D5>>, <<\hE951, \h1EE8>>, <<\h3E52, \h1432>>, <<\hB7E9, \hC3A3>>,
   <<\h4DE3, \h1A56>>, <<\h3837, \hC001>>, <<\h5159, \h76C3>>, <<\hA83D, \hE5EC>>,
   <<\h7F94, \hCE6A>>, <<\h7C27, \h2EC0>>, <<\hA709, \h7ABD>>, <<\hA82F, \h2686>>,
   <<\h6861, \h3509>>, <<\h9CE1, \h8247>>, <<\hEB43, \h8F23>>, <<\hC005, \h2575>>,
   <<\h09C8, \h5A4A>>, <<\hB412, \hB611>>, <<\h9CB9, \hDEDE>>, <<\h4C8F, \hA8EC>>,
   <<\hF333, \hE5AE>>, <<\hDE47, \h5EA6>>, <<\hD006, \h1EAA>>, <<\h6E68, \h7B64>>,
   <<\h7508, \h3FF7>>, <<\hF711, \h2C92>>, <<\h9340, \h8E2B>>, <<\hEC19, \h37E5>>,
   <<\hE9AE, \h251F>>, <<\hF507, \h28E2>>, <<\hF958, \hFD44>>, <<\h550E, \hBB4A>>,
   <<\h4519, \h0DB6>>, <<\h3EA6, \h5E6E>>, <<\hCA70, \hF620>>, <<\h7C27, \hFD39>>,
   <<\h94DA, \hDEAB>>, <<\h6F37, \h768E>>, <<\h2DDE, \h412F>>, <<\h4729, \hA062>>,
   <<\hA271, \h73A7>>, <<\h2572, \h26B0>>, <<\hF58D, \h2917>>, <<\hF0AE, \h6369>>,
   <<\hBF01, \h7E01>>, <<\h5BD0, \h6B80>>, <<\hD5F1, \hDC61>>, <<\h8CC4, \h5ABF>>,
   <<\h69F7, \hDA8C>>, <<\h048F, \hDB72>>, <<\hA6CA, \h5835>>, <<\hA5C4, \h2498>>,
   <<\h89A7, \hE2DC>>, <<\hC09C, \h1A18>>, <<\h62D3, \h01C2>>, <<\hBAC7, \hB0EA>>,
   <<\h0B74, \hB61E>>, <<\hCDFE, \hCF41>>, <<\h2CEA, \h8BBD>>, <<\hB250, \h3B05>>,
   <<\hEDFF, \h0D5E>>, <<\h6D16, \h0C98>>, <<\h7582, \hCB39>>, <<\h5F6F, \h60EF>>,
   <<\hA63E, \h5A5F>>, <<\h0574, \hBE6B>>, <<\hF869, \h6058>>, <<\h7A5F, \h57C3>>,
   <<\h8473, \h15D8>>, <<\h805F, \hEB24>>, <<\hA54D, \h1571>>, <<\h5E6D, \hECE7>>,
   <<\h01F2, \hA0EE>>, <<\h8C69, \hE934>>, <<\h5D8B, \hE7CB>>, <<\h0FD2, \hBAD5>>,
   <<\h19CF, \hEFD5>>, <<\hF8C3, \h0676>>, <<\hD83A, \hD304>>, <<\hD97D, \hEAD7>>,
   <<\h149D, \hBE02>>, <<\hACA7, \hD6D1>>, <<\h1C83, \hBEFD>>, <<\h884B, \hF0F4>>,
   <<\h85A3, \h2394>>, <<\hF783, \h46BE>>, <<\h5AA0, \h4532>>, <<\h5D9A, \hB6F0>>,
   <<\h8426, \h9010>>, <<\h189C, \h70C0>>, <<\hCECD, \hCD11>>, <<\hF81A, \h7F92>>,
   <<\hE34D, \h199D>>, <<\h1801, \hE718>>, <<\hFFB0, \h9629>>, <<\h923F, \h5873>>,
   <<\h6FBE, \hECC4>>, <<\hD822, \h21D3>>, <<\hA34D, \h67EF>>, <<\h3704, \hCF30>>,
   <<\h472E, \h4268>>, <<\h9403, \h56FA>>, <<\h8DB4, \h14D5>>, <<\h99A0, \hC7A3>>,
   <<\h7B22, \h2428>>, <<\hE523, \h40ED>>, <<\h13B2, \h57DE>>, <<\hF0A2, \h3A33>>,
   <<\hB4F7, \hE0E1>>, <<\hA281, \hFF29>>, <<\h31B3, \h09D0>>, <<\hC9BD, \h3976>>,
   <<\h0D3D, \hD1C6>>, <<\h0331, \hF819>>, <<\hB59C, \hDA2D>>, <<\h349F, \h455B>>,
   <<\hEDAA, \hD4A6>>, <<\h1104, \h1E4E>>, <<\h6CAE, \hF794>>, <<\h0411, \hEBAD>>,
   <<\hBEC6, \h7FB0>>, <<\hB842, \h2981>>, <<\hB570, \h741B>>, <<\h646B, \hE3D5>>,
   <<\h3623, \h4848>>, <<\h11B6, \h8459>>, <<\h2858, \h88FB>>, <<\hAD76, \hBCA5>>,
   <<\hD63F, \h25A3>>, <<\h5633, \h4527>>, <<\h4697, \h3210>>, <<\h8F15, \h2537>>,
   <<\hC3BA, \h78F8>>, <<\hFEAD, \hF6E0>>, <<\h1DD2, \h5885>>, <<\h1DAE, \h099A>>,
   <<\hC520, \h7B45>>, <<\hEDE2, \hA9D0>>, <<\h22A4, \hA1D9>>, <<\hEF58, \h8113>>,
   <<\hC534, \h1945>>, <<\h7B81, \h9EBE>>, <<\h0FAA, \h41EE>>, <<\h5804, \hFBBB>>,
   <<\h2F30, \h8F01>>, <<\hEEBE, \hF944>>, <<\h3BA7, \h9F89>>, <<\h2AE1, \h2B76>>,
   <<\h3D83, \h4308>>, <<\hBDF5, \h24C5>>, <<\h1D4D, \hBE37>>, <<\hCB46, \hFA9B>>,
   <<\h169F, \hF0C6>>, <<\h4B1B, \hB64C>>, <<\hF941, \h42FE>>, <<\h6C50, \h06F0>>,
   <<\h0407, \h9883>>, <<\hC31D, \hB684>>, <<\hAA78, \h56A4>>, <<\hBF19, \hF480>>,
   <<\h2FE4, \h6BBC>>, <<\h3398, \h57F5>>, <<\hE1B6, \h94B5>>, <<\h40F4, \h314B>>,
   <<\h4D23, \h7410>>, <<\h9447, \hF799>>, <<\h09CB, \hC597>>, <<\hDD3C, \h7740>>,
   <<\hA724, \h12B7>>, <<\h09CF, \h1893>>, <<\h8C09, \h31FC>>, <<\h89B9, \h566C>>,
   <<\h6CD6, \h092B>>, <<\h463A, \h61D1>>, <<\hCC7C, \hC567>>, <<\h02DA, \h5412>>,
   <<\h8546, \hCA77>>, <<\hB9EA, \hB343>>, <<\h6AE8, \h3854>>, <<\hDA7E, \h1017>>,
   <<\hB1CA, \h3482>>, <<\hDD94, \h3D56>>, <<\h8D5E, \h35C7>>, <<\hFCA5, \hF990>>,
   <<\hE5A1, \h6B15>>, <<\h9C2C, \hDE28>>, <<\hC98F, \hABFA>>, <<\h6C44, \h5A9A>>,
   <<\h2923, \h040D>>, <<\h21BC, \hF35D>>, <<\h784A, \hAE95>>, <<\hA27F, \h3645>>,
   <<\h08FA, \h0185>>, <<\h56CE, \hE3DB>>, <<\h4CBB, \h6A2A>>, <<\hC7E4, \h66B5>>,
   <<\hA5EC, \hBD3B>>, <<\hEFCC, \h5F6E>>, <<\h44AA, \h4682>>, <<\h6DD5, \hA129>>,
   <<\hD481, \h0B26>>, <<\hF739, \h6B92>>, <<\h09B7, \hEC75>>, <<\hF92E, \hE806>>,
   <<\hB72D, \h2C65>>, <<\hD75C, \hFC12>>, <<\h93D5, \hAD27>>, <<\hE7FE, \h372E>>,
   <<\h113C, \hAA8F>>, <<\h3746, \h1232>>, <<\hAE84, \h83FE>>, <<\hA874, \hE350>>,
   <<\h6B3B, \h0431>>, <<\hBCB1, \hE771>>, <<\hEA4D, \h1B93>>, <<\hE838, \hB800>>,
   <<\hB031, \h91F5>>, <<\h5870, \hFA4E>>, <<\h3477, \hF93F>>, <<\h0CC8, \h89BD>>,
   <<\h477D, \h3743>>, <<\hC583, \h0741>>, <<\h3B82, \h23D2>>, <<\h3CC2, \h6590>>,
   <<\h0288, \h2CE9>>, <<\hAEF8, \hD76E>>, <<\hF3BF, \h5219>>, <<\hBE71, \h16FE>>,
   <<\h365A, \h44A1>>, <<\h841A, \hDC64>>, <<\hE0D2, \hA5BC>>, <<\h8E6F, \h7B68>>,
   <<\hD377, \hCD8D>>, <<\h5F5C, \hC9BD>>, <<\hF6A0, \h44F0>>, <<\h5A08, \h5619>>,
   <<\hCEF4, \hD486>>, <<\hA759, \h491D>>, <<\h9129, \hFAC5>>, <<\h10AF, \h0C04>>,
   <<\h3B75, \hC10B>>, <<\hB9DA, \h429E>>, <<\hB050, \h68E2>>, <<\hB349, \hCFD0>>,
   <<\hE25E, \h0C65>>, <<\hD177, \h3420>>, <<\h21FA, \h0FCA>>, <<\h1317, \hF898>>,
   <<\h3C34, \hE1B1>>, <<\h29CC, \h00E2>>, <<\h3CEB, \h788F>>, <<\hA724, \h3BA4>>,
   <<\hE25E, \hAC49>>, <<\h9DDB, \h1C38>>, <<\h27E6, \hC700>>, <<\h20B1, \hE594>>,
   <<\h9D59, \hAF63>>, <<\hEF15, \h6BCA>>, <<\h6DEE, \h5BA4>>, <<\h899D, \hE0CA>>,
   <<\h8C8B, \hD682>>, <<\hCE3B, \h9EB8>>, <<\h994A, \h736C>>, <<\hD7E5, \h7A6C>>,
   <<\h5CAD, \h6057>>, <<\h4E7A, \h78E2>>, <<\hD613, \h1379>>, <<\h7578, \h143F>>,
   <<\h7680, \h8B73>>, <<\h87D7, \h26A9>>, <<\h5972, \h1536>>, <<\hAE94, \h8488>>,
   <<\h0CAB, \hE7D0>>, <<\h2565, \hDC12>>, <<\h15E7, \h2950>>, <<\h6049, \hCB78>>,
   <<\hB955, \h3FE4>>, <<\hF8B4, \h3FD9>>, <<\h0E27, \hE11D>>, <<\h0156, \hAC83>>,
   <<\h07E5, \hB8C9>>, <<\hC75E, \hC675>>, <<\hF473, \hB995>>, <<\hA659, \h639F>>,
   <<\h0A1E, \h2CD7>>, <<\h03DD, \hBB2F>>, <<\h5E35, \hD87C>>, <<\h938C, \hA890>>,
   <<\h4FD1, \h5FD7>>, <<\h40B7, \hF3AA>>, <<\h79CF, \h6D4A>>, <<\hE479, \h4BC8>>,
   <<\hDFC6, \h679D>>, <<\hDF8C, \h70B0>>, <<\hCE17, \hB770>>, <<\h4059, \hF17C>>,
   <<\hD0EE, \h15E6>>, <<\hD870, \hCFB1>>, <<\hADB2, \h6268>>, <<\h9A9C, \hC235>>,
   <<\h74FE, \h26C9>>, <<\hC34E, \hF110>>, <<\h760B, \h8D57>>, <<\h4552, \hE8A3>>,
   <<\h2C43, \hB0A6>>, <<\h350C, \hA735>>, <<\h946A, \hC151>>, <<\h48FE, \h3E8E>>,
   <<\hE5E2, \h61BF>>, <<\hD257, \hDE9A>>, <<\h0576, \hE8DB>>, <<\hCC88, \h4E89>>,
   <<\h2634, \hAE5F>>, <<\hB878, \h03BD>>, <<\h8DB8, \h468F>>, <<\h1121, \hAABE>>,
   <<\hE60F, \h550B>>, <<\hB96B, \hF8F3>>, <<\h3B8B, \h0C59>>, <<\h24D6, \hE38F>>,
   <<\h8BAE, \hB201>>, <<\h1EAA, \hD88E>>, <<\hB1C3, \h2121>>, <<\h19AD, \h7041>>,
   <<\h1064, \hFA95>>, <<\hF103, \h6230>>, <<\h3BFA, \h2CC4>>, <<\h8DB3, \h95EC>>,
   <<\hF87B, \hE9C8>>, <<\h7479, \h5B99>>, <<\h79C0, \h9757>>, <<\h6EF5, \h7972>>,
   <<\h9658, \h5340>>, <<\h521D, \hF397>>, <<\hFA6E, \h6BCF>>, <<\h1A6D, \hE329>>,
   <<\h0E36, \hC46B>>, <<\h5E07, \h5D1F>>, <<\hE0E8, \hABB5>>, <<\h7C52, \hBD73>>,
   <<\hEECA, \hC0BD>>, <<\h3934, \hCA2F>>, <<\h3F8E, \h15AC>>, <<\h31C8, \h6251>>,
   <<\hD43F, \hA0BA>>, <<\hF31E, \h68E8>>, <<\h51E3, \h50F0>>, <<\hC81B, \hBE61>>,
   <<\hD124, \h891B>>, <<\h7E49, \h59F3>>, <<\h0358, \h67FB>>, <<\h6969, \hFAFA>>,
   <<\hAEE5, \hD71B>>, <<\hCEE0, \hAB78>>, <<\h01AC, \hEDD5>>, <<\h790C, \hD214>>,
   <<\h569B, \hDB94>>, <<\h4E71, \h99BE>>, <<\h8F87, \hF74A>>, <<\h032F, \h2F12>>,
   <<\h7208, \hFE83>>, <<\hA7AA, \h1596>>, <<\hC098, \h242A>>, <<\h78A9, \h1D1C>>,
   <<\h8AF4, \h5BC3>>, <<\hD1A0, \hD8CC>>, <<\h88E8, \h77CE>>, <<\hAA64, \h5FE4>>,
   <<\h16ED, \h8744>>, <<\h5934, \h40B9>>, <<\hA149, \h01F1>>, <<\h7BD3, \hCA7E>>,
   <<\hEAAE, \hC7E5>>, <<\hB9F2, \h3B79>>, <<\hC51D, \hB24C>>, <<\h7750, \hF8ED>>,
   <<\hD1AB, \h5760>>, <<\h2A09, \hDF5B>>, <<\hC034, \hE567>>, <<\h0461, \h65D0>>,
   <<\h38E4, \h6344>>, <<\h004F, \h2200>>, <<\h4AE5, \hFFE3>>, <<\hCFDF, \h63B7>>,
   <<\h16B0, \h8DB5>>, <<\h7ADE, \hAE1D>>, <<\hA493, \h86F7>>, <<\h2BEA, \hB1A7>>,
   <<\h3591, \hF2B9>>, <<\h8075, \h64A3>>, <<\hE363, \hDC0F>>, <<\h5EA1, \h486F>>,
   <<\hD51B, \hBEE1>>, <<\h86CE, \h6B67>>, <<\h6438, \h1877>>, <<\hE647, \h4C06>>,
   <<\h95C8, \h4264>>, <<\h97E7, \hA80C>>, <<\h51E9, \h3437>>, <<\h0971, \h58F0>>,
   <<\hF693, \h8D3A>>, <<\h6387, \h8A29>>, <<\h8C3D, \hCEB4>>, <<\h6B9F, \hFCB5>>,
   <<\h34CC, \h55EB>>, <<\h56A2, \hA4EE>>, <<\hF9A8, \h1741>>, <<\h164E, \h49D4>>,
   <<\h06F7, \h1A4B>>, <<\h5221, \h1B45>>, <<\hC969, \h13FB>>, <<\hDC79, \h61C5>>,
   <<\hE167, \h26D8>>, <<\h5C41, \h0904>>, <<\hE3AA, \hB836>>, <<\h21B2, \hA55D>>,
   <<\h50C1, \h1664>>, <<\h7839, \hADC6>>, <<\h8FCF, \hA43A>>, <<\h71CE, \hD992>>,
   <<\hE14A, \h4394>>, <<\h2D14, \h3A84>>, <<\h8DAC, \h67E9>>, <<\h2EC7, \hA274>>,
   <<\h761D, \h1FC7>>, <<\hF2DE, \h7C12>>, <<\h159D, \hF8A8>>, <<\h0C7E, \h2166>>,
   <<\hB1E4, \h40DE>>, <<\hFF04, \hF20D>>, <<\h4EEC, \hCC33>>, <<\h0A01, \hA4FF>>,
   <<\hC96D, \h049E>>, <<\h3088, \h9B7D>>, <<\hE57A, \hC9A7>>, <<\h2798, \hE0D1>>,
   <<\h1B69, \h2B28>>, <<\h75A0, \hD742>>, <<\h9CB5, \h2890>>, <<\h939F, \hA911>>,
   <<\h06A7, \h78F9>>, <<\hA0BA, \h1ECA>>, <<\h24E3, \h4C6F>>, <<\h45A5, \h673D>>,
   <<\hDC83, \h4BB3>>, <<\hD2E4, \hBAB5>>, <<\h131E, \h5A8D>>, <<\hD7E7, \hC4D3>>,
   <<\h9EB2, \h4CFC>>, <<\hC655, \hE386>>, <<\h7582, \hC229>>, <<\h4D5D, \h786C>>,
   <<\h7F59, \h684E>>, <<\hDF84, \h3B2F>>, <<\h84EC, \hD02C>>, <<\h68B0, \h8D2B>>,
   <<\hDB0A, \h0809>>, <<\h939B, \h33E5>>, <<\hA9E5, \h2141>>, <<\h7848, \hF78B>>,
   <<\h3B0E, \hAB7D>>, <<\hB014, \h60E3>>, <<\hFF94, \h4DEE>>, <<\hA4ED, \hC6CF>>,
   <<\h6B9C, \hF0BB>>, <<\hBF54, \hAD44>>, <<\h8923, \h0009>>, <<\h4466, \h067E>>,
   <<\hE731, \hAABB>>, <<\hAF12, \h3ECA>>, <<\hCD8C, \h864F>>, <<\hFDA3, \h66CF>>,
   <<\h2DC3, \h04FF>>, <<\hF7EE, \hB8A1>>, <<\h553A, \h7C55>>, <<\h484C, \h6C14>>,
   <<\h19E6, \h0ADC>>, <<\h0582, \h839C>>, <<\h4B6B, \hE54C>>, <<\h48EB, \h5BB6>>,
   <<\hB251, \hDDEA>>, <<\hEFCA, \h0E72>>, <<\hAA59, \h0C93>>, <<\h8845, \hA53E>>,
   <<\h7146, \h7E21>>, <<\h7610, \h3879>>, <<\h6782, \h0E2C>>, <<\h9337, \h60FA>>,
   <<\h30C2, \h18AC>>, <<\h7935, \hB725>>, <<\h097C, \h0ACC>>, <<\hED19, \hFFD3>>,
   <<\h7D68, \h291E>>, <<\h69A2, \h42D3>>, <<\h9905, \h3262>>, <<\h585E, \h62E8>>,
   <<\h6959, \h1441>>, <<\hD5FA, \hDE92>>, <<\h4035, \h3B78>>, <<\h0EB3, \hC38D>>,
   <<\h88D3, \h05EA>>, <<\hE480, \h6EDD>>, <<\hAE0D, \h741B>>, <<\h162B, \h4955>>,
   <<\hCF35, \h4CC8>>, <<\h86B6, \hAA01>>, <<\hDFCC, \h156C>>, <<\h08A3, \hD03B>>,
   <<\h3EBF, \h1197>>, <<\h23CB, \h4B43>>, <<\hC2A9, \hEB0F>>, <<\h5999, \hD3BF>>,
   <<\h8EF8, \hC1A0>>, <<\h9F6D, \h747A>>, <<\hFEAD, \h2B29>>, <<\hC38F, \h8EAC>>,
   <<\hF65C, \h7347>>, <<\h57D6, \h67C5>>, <<\hD95F, \h495B>>, <<\h7787, \h0865>>,
   <<\hE27A, \h28E9>>, <<\h26AE, \h3EC6>>, <<\h303D, \h6267>>, <<\h608A, \hF015>>,
   <<\h8013, \hDCA9>>, <<\hBE6C, \h9AB2>>, <<\h2170, \h4C40>>, <<\h0BF3, \hA774>>,
   <<\h3485, \h94FD>>, <<\hDAA8, \h1B81>>, <<\h43ED, \h9D03>>, <<\h4980, \hFDCC>>,
   <<\h54DC, \hC71E>>, <<\h9719, \h2D23>>, <<\h0003, \hA01A>>, <<\h0A7B, \h91B9>>
  >>


(***************************************************************************)
(* The scalar cipher (src/src/charybdis.c)                                 *)
(* A column is the sequence of its four words; G_Mix and H_Mix receive the *)
(* column and the positions (from 1) of the words their pointers a, b, c,  *)
(* d name.  A state S is the sequence of its four rows.                    *)
(***************************************************************************)
RC(k) == CHARYBDIS_RC[k + 1]
R1 == 13
R2 == 19
R3 == 23
R4 == 29
RH1 == 9
RH2 == 17
RH3 == 21
RH4 == 27
\* *x += *y; *z ^= *x; *z = ROTR(*z, n) on the words x, y, z of col
SetStage(col, x, x1, z, n) == [col EXCEPT ![x] = x1, ![z] = ROTR(XOR32(col[z], x1), n)]
Stage(col, x, y, z, n) == SetStage(col, x, ADD32(col[x], col[y]), z, n)
\* *z = ROTL(*z, n) ^ *x; *x -= *y
InvStage(col, x, y, z, n) == [col EXCEPT ![z] = XOR32(ROTL(col[z], n), col[x]), ![x] = SUB32(col[x], col[y])]
G_Mix(col, a, b, c, d) == Stage(Stage(Stage(Stage(col, a, b, d, R1), c, d, b, R2), a, b, d, R3), c, d, b, R4)
H_Mix(col, a, b, c, d) == Stage(Stage(Stage(Stage(col, a, b, d, RH1), c, d, b, RH2), a, b, d, RH3), c, d, b, RH4)
InverseG_Mix(col, a, b, c, d) == InvStage(InvStage(InvStage(InvStage(col, c, d, b, R4), a, b, d, R3), c, d, b, R2), a, b, d, R1)
InverseH_Mix(col, a, b, c, d) == InvStage(InvStage(InvStage(InvStage(col, c, d, b, RH4), a, b, d, RH3), c, d, b, RH2), a, b, d, RH1)
ColumnMixColumn(col) == G_Mix(H_Mix(H_Mix(G_Mix(col, 1, 2, 3, 4), 1, 2, 3, 4), 3, 4, 1, 2), 3, 4, 1, 2)
\* faulty variant: the four inverse calls run in the order of the forward calls
InverseColumnMixColumnForwardOrder(col) == InverseG_Mix(InverseH_Mix(InverseH_Mix(InverseG_Mix(col, 1, 2, 3, 4), 1, 2, 3, 4), 3, 4, 1, 2), 3, 4, 1, 2)
InverseColumnMixColumn(col) == InverseG_Mix(InverseH_Mix(InverseH_Mix(InverseG_Mix(col, 3, 4, 1, 2), 3, 4, 1, 2), 1, 2, 3, 4), 1, 2, 3, 4)
At(S, i, j) == S[i + 1][j + 1]
Mat4(e(_, _)) ==
  <<<<e(0, 0), e(0, 1), e(0, 2), e(0, 3)>>,
    <<e(1, 0), e(1, 1), e(1, 2), e(1, 3)>>,
    <<e(2, 0), e(2, 1), e(2, 2), e(2, 3)>>,
    <<e(3, 0), e(3, 1), e(3, 2), e(3, 3)>>>>
SHIFTS == <<0, 1, 2, 3>>
ShiftRows(S) == LET e(i, j) == At(S, i, (j + SHIFTS[i + 1]) % 4) IN Mat4(e)
\* faulty variant: the inverse rotates the rows the same way as ShiftRows
InverseShiftRowsLeft(S) == LET e(i, j) == At(S, i, (j + SHIFTS[i + 1]) % 4) IN Mat4(e)
InverseShiftRows(S) == LET e(i, j) == At(S, i, (j - SHIFTS[i + 1] + 4) % 4) IN Mat4(e)
AddRoundKey(S, K) == LET e(i, j) == XOR32(At(S, i, j), At(K, i, j)) IN Mat4(e)
\* faulty variant: the constants are added, not XORed
SubConstantsAdds(S, round) == LET e(i, j) == ADD32(At(S, i, j), RC(((round - 1) * 16) + (4 * i) + j)) IN Mat4(e)
SubConstants(S, round) == LET e(i, j) == XOR32(At(S, i, j), RC(((round - 1) * 16) + (4 * i) + j)) IN Mat4(e)
Transpose(S) == LET e(i, j) == At(S, j, i) IN Mat4(e)
\* columns of S, mixed one by one
RECURSIVE MixCols(_, _, _)
MixCols(T, j, inverse) ==
  IF j > 4 \/ Len(T) # 4 THEN T
  ELSE MixCols([T EXCEPT ![j] = IF inverse THEN InverseColumnMixColumn(T[j]) ELSE ColumnMixColumn(T[j])], j + 1, inverse)
MixColumns(S) == Transpose(MixCols(Transpose(S), 1, FALSE))
InverseMixColumns(S) == Transpose(MixCols(Transpose(S), 1, TRUE))
Round(S, K, r) == AddRoundKey(ShiftRows(MixColumns(SubConstants(S, r))), K)
InverseRound(S, K, r) == SubConstants(InverseMixColumns(InverseShiftRows(AddRoundKey(S, K))), r)
load_le32(b, off) == <<(b[off + 4] * 256) + b[off + 3], (b[off + 2] * 256) + b[off + 1]>>
store_le32(v) == <<v[2] % 256, v[2] \div 256, v[1] % 256, v[1] \div 256>>
CHARYBDIS_ROUNDS == 22
CHARYBDIS_SUBKEYS == 24
CHARYBDIS_BLOCK_SIZE == 64
Subkey(subkeys, r) == subkeys[r + 1]
RECURSIVE EncRounds(_, _, _)
EncRounds(S, subkeys, r) ==
  IF r > CHARYBDIS_ROUNDS \/ Len(S) # 4 THEN S
  ELSE EncRounds(Round(S, Subkey(subkeys, r), r), subkeys, r + 1)
RECURSIVE DecRounds(_, _, _)
DecRounds(S, subkeys, r) ==
  IF r < 1 \/ Len(S) # 4 THEN S
  ELSE DecRounds(InverseRound(S, Subkey(subkeys, r), r), subkeys, r - 1)
LoadState(in) == LET e(i, j) == load_le32(in, 4 * ((4 * i) + j)) IN Mat4(e)
StoreRow(row) == store_le32(row[1]) \o store_le32(row[2]) \o store_le32(row[3]) \o store_le32(row[4])
StoreState(S) == StoreRow(S[1]) \o StoreRow(S[2]) \o StoreRow(S[3]) \o StoreRow(S[4])
Charybdis_EncryptBlock(in, subkeys) ==
  StoreState(AddRoundKey(EncRounds(AddRoundKey(LoadState(in), Subkey(subkeys, 0)), subkeys, 1), Subkey(subkeys, 23)))
Charybdis_DecryptBlock(in, subkeys) ==
  StoreState(AddRoundKey(DecRounds(AddRoundKey(LoadState(in), Subkey(subkeys, 23)), subkeys, CHARYBDIS_ROUNDS), Subkey(subkeys, 0)))
(***************************************************************************)
(* Key schedule (src/src/charybdis.c): a sponge over the 4 x 8 word state  *)
(* KSS, held here row by row as 32 words                                   *)
(***************************************************************************)
F_R1 == 11
F_R2 == 19
F_R3 == 23
F_R4 == 29

\* &KSS[i][j]
KP(i, j) == (8 * i) + j + 1
Vec32(f(_)) ==
  <<f(0), f(1), f(2), f(3), f(4), f(5), f(6), f(7),
    f(8), f(9), f(10), f(11), f(12), f(13), f(14), f(15),
    f(16), f(17), f(18), f(19), f(20), f(21), f(22), f(23),
    f(24), f(25), f(26), f(27), f(28), f(29), f(30), f(31)>>

\* the four statements of F_G_Mix on the words at a, b, c, d
F_G_Mix(KSS, a, b, c, d) ==
  Stage(Stage(Stage(Stage(KSS, a, b, d, F_R1), c, d, b, F_R2), a, b, d, F_R3), c, d, b, F_R4)

\* faulty variant: every round adds the constants of round 15 + r
F_AddConstantsPastEnd(KSS, r) ==
  [KSS EXCEPT ![KP(0, 0)] = ADD32(@, RC_F[(((15 + r) % 16) * 4) + 1]),
              ![KP(1, 1)] = ADD32(@, RC_F[(((15 + r) % 16) * 4) + 2]),
              ![KP(2, 2)] = ADD32(@, RC_F[(((15 + r) % 16) * 4) + 3]),
              ![KP(3, 3)] = ADD32(@, RC_F[(((15 + r) % 16) * 4) + 4])]
\* "for (i = 0; i < 4; i++) KSS[i][i] += RC_F[r * 4 + i];"
F_AddConstants(KSS, r) ==
  [KSS EXCEPT ![KP(0, 0)] = ADD32(@, RC_F[(r * 4) + 1]),
              ![KP(1, 1)] = ADD32(@, RC_F[(r * 4) + 2]),
              ![KP(2, 2)] = ADD32(@, RC_F[(r * 4) + 3]),
              ![KP(3, 3)] = ADD32(@, RC_F[(r * 4) + 4])]
\* "for (j = 0; j < 8; j++) F_G_Mix(&KSS[0][j], &KSS[1][j], &KSS[2][j], &KSS[3][j]);"
RECURSIVE F_Columns(_, _)
F_Columns(KSS, j) ==
  IF j >= 8 \/ Len(KSS) # 32 THEN KSS
  ELSE F_Columns(F_G_Mix(KSS, KP(0, j), KP(1, j), KP(2, j), KP(3, j)), j + 1)
\* the two F_G_Mix calls on row i, from column i on, wrapping around
F_Row(KSS, i) ==
  F_G_Mix(F_G_Mix(KSS, KP(i, (i + 0) % 8), KP(i, (i + 1) % 8), KP(i, (i + 2) % 8), KP(i, (i + 3) % 8)),
          KP(i, (i + 4) % 8), KP(i, (i + 5) % 8), KP(i, (i + 6) % 8), KP(i, (i + 7) % 8))
RECURSIVE F_Rows(_, _)
F_Rows(KSS, i) ==
  IF i >= 4 \/ Len(KSS) # 32 THEN KSS ELSE F_Rows(F_Row(KSS, i), i + 1)
F_perm_Round(KSS, r) == F_Rows(F_Columns(F_AddConstants(KSS, r), 0), 0)

\* "for (r = 0; r < 16; r++) F_perm_Round(KSS, r);"
RECURSIVE F_permFrom(_, _)
F_permFrom(KSS, r) ==
  IF r >= 16 \/ Len(KSS) # 32 THEN KSS ELSE F_permFrom(F_perm_Round(KSS, r), r + 1)
F_perm(KSS) == F_permFrom(KSS, 0)

\* row 0 from the master key, rows 1..3 from C_INIT
InitialKSS(master_key) ==
  LET e(k) == IF k < 8 THEN load_le32(master_key, 4 * k) ELSE C_INIT[(k - 8) + 1]
  IN  Vec32(e)
\* "subkeys[i][r][c] = KSS[r][c];" for r, c in 0..3
Squeeze(KSS) == LET e(r, c) == KSS[KP(r, c)] IN Mat4(e)
\* faulty variant: the counter of step i is i, not i + 1
AddCounterFromZero(KSS, i) ==
  [KSS EXCEPT ![KP(0, 7)] = ADD32(@, <<0, i>>),
              ![KP(1, 3)] = ADD32(@, <<0, i>>),
              ![KP(2, 6)] = ADD32(@, <<0, i>>),
              ![KP(3, 1)] = ADD32(@, <<0, i>>)]
\* the four counter additions and the KSC injection of squeeze step i
AddCounter(KSS, i) ==
  [KSS EXCEPT ![KP(0, 7)] = ADD32(@, <<0, i + 1>>),
              ![KP(1, 3)] = ADD32(@, <<0, i + 1>>),
              ![KP(2, 6)] = ADD32(@, <<0, i + 1>>),
              ![KP(3, 1)] = ADD32(@, <<0, i + 1>>)]
InjectKSC(KSS, i) == LET e(k) == XOR32(KSS[k + 1], KSC[(i * 32) + k + 1]) IN Vec32(e)

\* the squeeze loop from step i on; out is the caller's array, of which the
\* loop assigns element i in step i
RECURSIVE SqueezeFrom(_, _, _, _)
SqueezeFrom(KSS, out, i, last) ==
  IF i > last \/ Len(KSS) # 32 THEN out
  ELSE SqueezeFrom(IF i < 23 THEN F_perm(InjectKSC(AddCounter(KSS, i), i)) ELSE KSS,
                   [out EXCEPT ![i + 1] = Squeeze(KSS)], i + 1, last)
\* faulty variant: the loop stops one subkey short
KeyScheduleShort(master_key, out) ==
  SqueezeFrom(F_perm(InitialKSS(master_key)), out, 0, CHARYBDIS_SUBKEYS - 2)
\* void Charybdis_KeySchedule(master_key, subkeys): the array afterwards
Charybdis_KeySchedule(master_key, out) ==
  SqueezeFrom(F_perm(InitialKSS(master_key)), out, 0, CHARYBDIS_SUBKEYS - 1)

(***************************************************************************)
(* AVX2 registers and intrinsics (src/src/charybdis_avx2.c)                *)
(* An __m256i is the sequence of its eight 32-bit lanes, lane 0 first; on  *)
(* the little-endian x86 the lane k holds the bytes 4k .. 4k+3 of the      *)
(* register, lowest byte first.                                            *)
(***************************************************************************)
CHARYBDIS_AVX2_LANES == 8

Lanes(f(_)) == <<f(1), f(2), f(3), f(4), f(5), f(6), f(7), f(8)>>

mm256_add_epi32(a, b) == LET f(k) == ADD32(a[k], b[k]) IN Lanes(f)
mm256_sub_epi32(a, b) == LET f(k) == SUB32(a[k], b[k]) IN Lanes(f)
mm256_xor_si256(a, b) == LET f(k) == XOR32(a[k], b[k]) IN Lanes(f)
mm256_set1_epi32(x) == <<x, x, x, x, x, x, x, x>>
AVX2_ROR32(v, n) == LET f(k) == ROTR(v[k], n) IN Lanes(f)
AVX2_ROL32(v, n) == LET f(k) == ROTL(v[k], n) IN Lanes(f)

\* the 32 bytes of a register and back
RegBytes(v) ==
  store_le32(v[1]) \o store_le32(v[2]) \o store_le32(v[3]) \o store_le32(v[4]) \o
  store_le32(v[5]) \o store_le32(v[6]) \o store_le32(v[7]) \o store_le32(v[8])
BytesReg(b) == LET f(k) == load_le32(b, 4 * (k - 1)) IN Lanes(f)

\* vpshufb: within each 128-bit half, byte i of the result is byte (m[i] & 15) of
\* that half of a, or 0 when bit 7 of m[i] is set
ShuffleBytes(ab, mb) ==
  [i \in 1..32 |-> IF mb[i] >= 128 THEN 0 ELSE ab[(((i - 1) \div 16) * 16) + (mb[i] % 16) + 1]]
mm256_shuffle_epi8(a, m) == BytesReg(ShuffleBytes(RegBytes(a), RegBytes(m)))

mm256_unpacklo_epi32(a, b) == <<a[1], b[1], a[2], b[2], a[5], b[5], a[6], b[6]>>
mm256_unpackhi_epi32(a, b) == <<a[3], b[3], a[4], b[4], a[7], b[7], a[8], b[8]>>
mm256_unpacklo_epi64(a, b) == <<a[1], a[2], b[1], b[2], a[5], a[6], b[5], b[6]>>
mm256_unpackhi_epi64(a, b) == <<a[3], a[4], b[3], b[4], a[7], a[8], b[7], b[8]>>

\* vperm2i128: each half of the result is the half of a or b that the control
\* digit names (0: a low, 1: a high, 2: b low, 3: b high; bit 3 zeroes it)
HalfOf(src, off) == <<src[off + 1], src[off + 2], src[off + 3], src[off + 4]>>
Half128(a, b, sel) ==
  IF sel >= 8 THEN <<Zero32, Zero32, Zero32, Zero32>>
  ELSE HalfOf(IF (sel % 4) < 2 THEN a ELSE b, IF (sel % 2) = 0 THEN 0 ELSE 4)
mm256_permute2x128_si256(a, b, imm) == Half128(a, b, imm % 16) \o Half128(a, b, imm \div 16)

\* _mm256_setr_epi8(3, 2, 1, 0, 7, 6, 5, 4, 11, 10, 9, 8, 15, 14, 13, 12, ...)
SwapMask ==
  BytesReg(<<3, 2, 1, 0, 7, 6, 5, 4, 11, 10, 9, 8, 15, 14, 13, 12,
             3, 2, 1, 0, 7, 6, 5, 4, 11, 10, 9, 8, 15, 14, 13, 12>>)
\* a static __m256i before its first assignment
ZeroReg == mm256_set1_epi32(Zero32)

\* the stage functions; each returns its three registers in parameter order.
\* "*a = add(*a, *b); *d = xor(*d, *a); *d = ROR(*d, n)", a1 being the new *a
SumABD(a1, b, d, n) == <<a1, b, AVX2_ROR32(mm256_xor_si256(d, a1), n)>>
StageABD(a, b, d, n) == SumABD(mm256_add_epi32(a, b), b, d, n)
\* "*c = add(*c, *d); *b = xor(*b, *c); *b = ROR(*b, n)", c1 being the new *c
SumCBD(c1, b, d, n) == <<c1, AVX2_ROR32(mm256_xor_si256(b, c1), n), d>>
StageCBD(c, b, d, n) == SumCBD(mm256_add_epi32(c, d), b, d, n)
\* "*b = ROL(*b, n); *b = xor(*b, *c); *c = sub(*c, *d)"
InvStageCBD(c, b, d, n) == <<mm256_sub_epi32(c, d), mm256_xor_si256(AVX2_ROL32(b, n), c), d>>
\* "*d = ROL(*d, n); *d = xor(*d, *a); *a = sub(*a, *b)"
InvStageABD(a, b, d, n) == <<mm256_sub_epi32(a, b), b, mm256_xor_si256(AVX2_ROL32(d, n), a)>>

avx2_g_mix_stage1(a, b, d) == StageABD(a, b, d, R1)
avx2_g_mix_stage2(c, b, d) == StageCBD(c, b, d, R2)
avx2_g_mix_stage3(a, b, d) == StageABD(a, b, d, R3)
avx2_g_mix_stage4(c, b, d) == StageCBD(c, b, d, R4)
avx2_h_mix_stage1(a, b, d) == StageABD(a, b, d, RH1)
avx2_h_mix_stage2(c, b, d) == StageCBD(c, b, d, RH2)
avx2_h_mix_stage3(a, b, d) == StageABD(a, b, d, RH3)
avx2_h_mix_stage4(c, b, d) == StageCBD(c, b, d, RH4)
avx2_inv_g_mix_stage4(c, b, d) == InvStageCBD(c, b, d, R4)
avx2_inv_g_mix_stage3(a, b, d) == InvStageABD(a, b, d, R3)
avx2_inv_g_mix_stage2(c, b, d) == InvStageCBD(c, b, d, R2)
avx2_inv_g_mix_stage1(a, b, d) == InvStageABD(a, b, d, R1)
avx2_inv_h_mix_stage4(c, b, d) == InvStageCBD(c, b, d, RH4)
avx2_inv_h_mix_stage3(a, b, d) == InvStageABD(a, b, d, RH3)
avx2_inv_h_mix_stage2(c, b, d) == InvStageCBD(c, b, d, RH2)
avx2_inv_h_mix_stage1(a, b, d) == InvStageABD(a, b, d, RH1)

\* a call "f(&state[p][j], &state[q][j], &state[r][j])" is <<f, p, q, r>>
StageCall(f, x, y, z) ==
  CASE f = "g1" -> avx2_g_mix_stage1(x, y, z)
    [] f = "g2" -> avx2_g_mix_stage2(x, y, z)
    [] f = "g3" -> avx2_g_mix_stage3(x, y, z)
    [] f = "g4" -> avx2_g_mix_stage4(x, y, z)
    [] f = "h1" -> avx2_h_mix_stage1(x, y, z)
    [] f = "h2" -> avx2_h_mix_stage2(x, y, z)
    [] f = "h3" -> avx2_h_mix_stage3(x, y, z)
    [] f = "h4" -> avx2_h_mix_stage4(x, y, z)
    [] f = "ig4" -> avx2_inv_g_mix_stage4(x, y, z)
    [] f = "ig3" -> avx2_inv_g_mix_stage3(x, y, z)
    [] f = "ig2" -> avx2_inv_g_mix_stage2(x, y, z)
    [] f = "ig1" -> avx2_inv_g_mix_stage1(x, y, z)
    [] f = "ih4" -> avx2_inv_h_mix_stage4(x, y, z)
    [] f = "ih3" -> avx2_inv_h_mix_stage3(x, y, z)
    [] f = "ih2" -> avx2_inv_h_mix_stage2(x, y, z)
    [] f = "ih1" -> avx2_inv_h_mix_stage1(x, y, z)
SetColumn(state, p, q, r, j, t) ==
  [state EXCEPT ![p + 1][j + 1] = t[1], ![q + 1][j + 1] = t[2], ![r + 1][j + 1] = t[3]]
OnColumn(state, call, j) ==
  SetColumn(state, call[2], call[3], call[4], j,
            StageCall(call[1], At(state, call[2], j), At(state, call[3], j), At(state, call[4], j)))
\* the four calls of one stage, for the columns j = 0 .. 3
RECURSIVE OnColumns(_, _, _)
OnColumns(state, call, j) ==
  IF j > 3 \/ Len(state) # 4 THEN state
  ELSE OnColumns(OnColumn(state, call, j), call, j + 1)
\* the calls of a function body, in order
RECURSIVE RunCalls(_, _, _)
RunCalls(state, calls, k) ==
  IF k > Len(calls) \/ Len(state) # 4 THEN state
  ELSE RunCalls(OnColumns(state, calls[k], 0), calls, k + 1)

\* the body of avx2_column_mix, one entry per group of four calls
ColumnMixCalls ==
  <<<<"g1", 0, 1, 3>>, <<"g2", 2, 1, 3>>, <<"g3", 0, 1, 3>>, <<"g4", 2, 1, 3>>,
    <<"h1", 0, 1, 3>>, <<"h2", 2, 1, 3>>, <<"h3", 0, 1, 3>>, <<"h4", 2, 1, 3>>,
    <<"h1", 2, 3, 1>>, <<"h2", 0, 3, 1>>, <<"h3", 2, 3, 1>>, <<"h4", 0, 3, 1>>,
    <<"g1", 2, 3, 1>>, <<"g2", 0, 3, 1>>, <<"g3", 2, 3, 1>>, <<"g4", 0, 3, 1>>>>
avx2_column_mix(state) == RunCalls(state, ColumnMixCalls, 1)

\* the body of avx2_inverse_column_mix
InverseColumnMixCalls ==
  <<<<"ig4", 0, 3, 1>>, <<"ig3", 2, 3, 1>>, <<"ig2", 0, 3, 1>>, <<"ig1", 2, 3, 1>>,
    <<"ih4", 0, 3, 1>>, <<"ih3", 2, 3, 1>>, <<"ih2", 0, 3, 1>>, <<"ih1", 2, 3, 1>>,
    <<"ih4", 2, 1, 3>>, <<"ih3", 0, 1, 3>>, <<"ih2", 2, 1, 3>>, <<"ih1", 0, 1, 3>>,
    <<"ig4", 2, 1, 3>>, <<"ig3", 0, 1, 3>>, <<"ig2", 2, 1, 3>>, <<"ig1", 0, 1, 3>>>>
avx2_inverse_column_mix(state) == RunCalls(state, InverseColumnMixCalls, 1)

\* faulty variant: rows 1 and 3 are rotated to the right
avx2_shift_rows_right(state) ==
  <<state[1],
    <<state[2][4], state[2][1], state[2][2], state[2][3]>>,
    <<state[3][3], state[3][4], state[3][1], state[3][2]>>,
    <<state[4][2], state[4][3], state[4][4], state[4][1]>>>>

avx2_shift_rows(state) ==
  <<state[1],
    <<state[2][2], state[2][3], state[2][4], state[2][1]>>,
    <<state[3][3], state[3][4], state[3][1], state[3][2]>>,
    <<state[4][4], state[4][1], state[4][2], state[4][3]>>>>

avx2_inverse_shift_rows(state) ==
  <<state[1],
    <<state[2][4], state[2][1], state[2][2], state[2][3]>>,
    <<state[3][3], state[3][4], state[3][1], state[3][2]>>,
    <<state[4][2], state[4][3], state[4][4], state[4][1]>>>>

avx2_add_round_key(state, subkey) ==
  LET e(i, j) == mm256_xor_si256(At(state, i, j), At(subkey, i, j)) IN Mat4(e)

avx2_sub_constants(state, round_constants) ==
  LET e(i, j) == mm256_xor_si256(At(state, i, j), At(round_constants, i, j)) IN Mat4(e)

\* sixteen registers, numbered from 0 as in the source
Vec16(f(_)) ==
  <<f(0), f(1), f(2), f(3), f(4), f(5), f(6), f(7),
    f(8), f(9), f(10), f(11), f(12), f(13), f(14), f(15)>>

\* one level of the interleave network:
\* "next[i*2] = lo(v[i*2], v[i*2+1]); next[i*2+1] = hi(v[i*2], v[i*2+1])"
Interleave(v, lo(_, _), hi(_, _)) ==
  LET f(k) == IF k % 2 = 0 THEN lo(v[k + 1], v[k + 2]) ELSE hi(v[k], v[k + 1]) IN Vec16(f)
Permute20(a, b) == mm256_permute2x128_si256(a, b, 32)
Permute31(a, b) == mm256_permute2x128_si256(a, b, 49)
\* "data[i] = _mm256_shuffle_epi8(_mm256_loadu_si256(in + i * 32), avx2_swap_mask)"
LoadSwapped(in, mask) ==
  LET f(i) == mm256_shuffle_epi8(BytesReg(SubSeq(in, (i * 32) + 1, (i * 32) + 32)), mask) IN Vec16(f)
\* "state[i][j] = level3[i*4 + j]" and "level3[i*4 + j] = state[i][j]"
StateOf(level3) == LET e(i, j) == level3[(i * 4) + j + 1] IN Mat4(e)
Level3Of(state) == LET f(k) == At(state, k \div 4, k % 4) IN Vec16(f)
\* "_mm256_storeu_si256(out + i * 32, _mm256_shuffle_epi8(data[i], avx2_swap_mask))"
RECURSIVE StoreSwapped(_, _, _)
StoreSwapped(data, mask, i) ==
  IF i > 16 THEN <<>>
  ELSE RegBytes(mm256_shuffle_epi8(data[i], mask)) \o StoreSwapped(data, mask, i + 1)

\* in: the 512 bytes at the pointer; mask: the value of avx2_swap_mask
avx2_load_8_blocks_optimized(in, mask) ==
  StateOf(Interleave(Interleave(Interleave(LoadSwapped(in, mask),
                                           mm256_unpacklo_epi32, mm256_unpackhi_epi32),
                                mm256_unpacklo_epi64, mm256_unpackhi_epi64),
                     Permute20, Permute31))

\* the 512 bytes written at the pointer
avx2_store_8_blocks_optimized(state, mask) ==
  StoreSwapped(Interleave(Interleave(Interleave(Level3Of(state), Permute20, Permute31),
                                     mm256_unpacklo_epi64, mm256_unpackhi_epi64),
                          mm256_unpacklo_epi32, mm256_unpackhi_epi32),
               mask, 1)

avx2_encrypt_round(state, subkey, round_constants) ==
  avx2_add_round_key(avx2_shift_rows(avx2_column_mix(avx2_sub_constants(state, round_constants))), subkey)

avx2_decrypt_round(state, subkey, round_constants) ==
  avx2_sub_constants(avx2_inverse_column_mix(avx2_inverse_shift_rows(avx2_add_round_key(state, subkey))), round_constants)

(***************************************************************************)
(* The AVX2 context (src/src/charybdis_avx2.h) and the public API          *)
(***************************************************************************)
NULL == 0

CHARYBDIS_AVX2_ISA_TAG == <<\h4156, \h5832>>

\* sizeof(charybdis_avx2_context_t): the members, padded to the 32-byte
\* alignment of the struct
ContextMemberBytes ==
  (CHARYBDIS_SUBKEYS * 16 * 32) + (CHARYBDIS_ROUNDS * 16 * 32) + (CHARYBDIS_SUBKEYS * 16 * 4) + 4 + 4
SizeofContext == ((ContextMemberBytes + 31) \div 32) * 32
ContextPadBytes == SizeofContext - ContextMemberBytes

\* CHARYBDIS_AVX2_ISA_TAG ^ sizeof(*ctx)
ContextMarker ==
  XOR32(CHARYBDIS_AVX2_ISA_TAG, <<SizeofContext \div 65536, SizeofContext % 65536>>)

Seq22(f(_)) ==
  <<f(1), f(2), f(3), f(4), f(5), f(6), f(7), f(8), f(9), f(10), f(11),
    f(12), f(13), f(14), f(15), f(16), f(17), f(18), f(19), f(20), f(21), f(22)>>
Seq24(f(_)) ==
  <<f(0), f(1), f(2), f(3), f(4), f(5), f(6), f(7), f(8), f(9), f(10), f(11),
    f(12), f(13), f(14), f(15), f(16), f(17), f(18), f(19), f(20), f(21), f(22), f(23)>>

\* a context whose every member word is w, whose padding bytes are pad and
\* whose validity marker is m
FilledContext(w, pad, m) ==
  LET reg == mm256_set1_epi32(w)
      vm  == LET e(i, j) == reg IN Mat4(e)
      sm  == LET e(i, j) == w IN Mat4(e)
      vk(r) == vm
      sk(r) == sm
  IN  [vec_subkeys |-> Seq24(vk),
       vec_round_constants |-> Seq22(vk),
       scalar_subkeys |-> Seq24(sk),
       isa_tag |-> w,
       initialized |-> m,
       padding |-> [k \in 1..ContextPadBytes |-> pad]]

\* memset(ctx, 0, sizeof(*ctx)) and charybdis_secure_memzero(ctx, sizeof(*ctx))
ZeroContext == FilledContext(Zero32, 0, Zero32)
\* faulty variant: the erasure stops short of the validity marker
MemzeroKeepsMarker(c) == [ZeroContext EXCEPT !.initialized = c.initialized]
charybdis_secure_memzero(c) == ZeroContext

\* charybdis_avx2_available(): what CPUID and XCR0 report on this machine
charybdis_avx2_available(cpu) == IF cpu THEN 1 ELSE 0

\* faulty variant: the constants of round r are read from base (r - 1) * 4
ContextWithNarrowBase(sk, m) ==
  LET vk(r) == LET e(i, j) == mm256_set1_epi32(At(Subkey(sk, r), i, j)) IN Mat4(e)
      vc(round) == LET e(i, j) == mm256_set1_epi32(RC(((round - 1) * 4) + (4 * i) + j)) IN Mat4(e)
  IN  [ZeroContext EXCEPT !.scalar_subkeys = sk,
                          !.vec_subkeys = Seq24(vk),
                          !.vec_round_constants = Seq22(vc),
                          !.isa_tag = CHARYBDIS_AVX2_ISA_TAG,
                          !.initialized = m]
\* memset, memcpy of the schedule, the two broadcast loops, isa_tag, and the
\* marker m in ctx->initialized
ContextWith(sk, m) ==
  LET vk(r) == LET e(i, j) == mm256_set1_epi32(At(Subkey(sk, r), i, j)) IN Mat4(e)
      vc(round) == LET e(i, j) == mm256_set1_epi32(RC(((round - 1) * 16) + (4 * i) + j)) IN Mat4(e)
  IN  [ZeroContext EXCEPT !.scalar_subkeys = sk,
                          !.vec_subkeys = Seq24(vk),
                          !.vec_round_constants = Seq22(vc),
                          !.isa_tag = CHARYBDIS_AVX2_ISA_TAG,
                          !.initialized = m]
\* faulty variant: the marker is the bare tag, without the structure size
BuildContextTagOnly(sk) == ContextWith(sk, CHARYBDIS_AVX2_ISA_TAG)
\* the context charybdis_avx2_init_context leaves behind on success
BuildContext(sk) == ContextWith(sk, ContextMarker)

\* faulty variant: no "if (ctx)", a null pointer reaches the erasure
ClearUnchecked(cx, p) == [q \in DOMAIN cx |-> IF p = NULL \/ q = p THEN ZeroContext ELSE cx[q]]
\* void charybdis_avx2_clear_context(ctx): the contexts afterwards
charybdis_avx2_clear_context(cx, p) ==
  IF p # NULL THEN [cx EXCEPT ![p] = charybdis_secure_memzero(cx[p])] ELSE cx

\* caller memory: addresses count from 1, NULL is 0
ReadBytes(m, a, len) == SubSeq(m, a, a + len - 1)
WriteBytes(m, a, b) == SubSeq(m, 1, a - 1) \o b \o SubSeq(m, a + Len(b), Len(m))

\* faulty variant: the output block is zeroed before the input is loaded
EncryptBlockClearsOut(m, in, out, subkeys) ==
  WriteBytes(m, out,
             Charybdis_EncryptBlock(
               ReadBytes(WriteBytes(m, out, [k \in 1..CHARYBDIS_BLOCK_SIZE |-> 0]), in,
                         CHARYBDIS_BLOCK_SIZE),
               subkeys))
\* a call Charybdis_EncryptBlock(in, out, subkeys) on caller memory: the loop
\* that loads the 16 words of in into S runs before the loop that stores the
\* 16 words of S to out
EncryptBlockCall(m, in, out, subkeys) ==
  WriteBytes(m, out, Charybdis_EncryptBlock(ReadBytes(m, in, CHARYBDIS_BLOCK_SIZE), subkeys))
\* likewise Charybdis_DecryptBlock(in, out, subkeys)
DecryptBlockCall(m, in, out, subkeys) ==
  WriteBytes(m, out, Charybdis_DecryptBlock(ReadBytes(m, in, CHARYBDIS_BLOCK_SIZE), subkeys))

\* faulty variant: the test forgets "nblocks == 0"
BatchRejectsAnyCount(in, out, nblocks, cx, p) ==
  \/ in = NULL
  \/ out = NULL
  \/ p = NULL
  \/ cx[p].initialized # ContextMarker
\* the test at the head of both batch functions, operands left to right
BatchRejects(in, out, nblocks, cx, p) ==
  \/ in = NULL
  \/ out = NULL
  \/ p = NULL
  \/ nblocks = 0
  \/ cx[p].initialized # ContextMarker
\* whether that test gets as far as reading ctx->initialized
MarkerRead(in, out, nblocks, p) ==
  ~(in = NULL) /\ ~(out = NULL) /\ ~(p = NULL) /\ ~(nblocks = 0)

\* "for (r = 1; r <= CHARYBDIS_ROUNDS; r++)
\*    avx2_encrypt_round(state, ctx->vec_subkeys[r], ctx->vec_round_constants[r-1]);"
\* (sequences count from 1: vec_subkeys[r] of the source is c.vec_subkeys[r + 1])
RECURSIVE EncryptGroupRounds(_, _, _)
EncryptGroupRounds(state, c, r) ==
  IF r > CHARYBDIS_ROUNDS \/ Len(state) # 4 THEN state
  ELSE EncryptGroupRounds(avx2_encrypt_round(state, c.vec_subkeys[r + 1], c.vec_round_constants[r]),
                          c, r + 1)

\* "for (r = CHARYBDIS_ROUNDS; r >= 1; r--)
\*    avx2_decrypt_round(state, ctx->vec_subkeys[r], ctx->vec_round_constants[r-1]);"
RECURSIVE DecryptGroupRounds(_, _, _)
DecryptGroupRounds(state, c, r) ==
  IF r < 1 \/ Len(state) # 4 THEN state
  ELSE DecryptGroupRounds(avx2_decrypt_round(state, c.vec_subkeys[r + 1], c.vec_round_constants[r]),
                          c, r - 1)

\* the body of the loop over full groups: 512 bytes in, 512 bytes out
EncryptGroup(in, c, mask) ==
  avx2_store_8_blocks_optimized(
    avx2_add_round_key(
      EncryptGroupRounds(
        avx2_add_round_key(avx2_load_8_blocks_optimized(in, mask), c.vec_subkeys[1]), c, 1),
      c.vec_subkeys[24]),
    mask)
DecryptGroup(in, c, mask) ==
  avx2_store_8_blocks_optimized(
    avx2_add_round_key(
      DecryptGroupRounds(
        avx2_add_round_key(avx2_load_8_blocks_optimized(in, mask), c.vec_subkeys[24]),
        c, CHARYBDIS_ROUNDS),
      c.vec_subkeys[1]),
    mask)

GroupBytes == CHARYBDIS_AVX2_LANES * CHARYBDIS_BLOCK_SIZE

\* the two loops of a batch function; w is the work done so far: the memory
\* and the log of what was processed, <<"vector", first block>> for a group
\* of 8 and <<"scalar", block>> for a tail block
\* faulty variant: the eight output blocks are zeroed before the load
GroupStepClearsOut(w, in, out, group, offset, c, mask, decrypt) ==
  [mem |-> WriteBytes(w.mem, out + offset,
                      IF decrypt
                      THEN DecryptGroup(ReadBytes(WriteBytes(w.mem, out + offset, [k \in 1..GroupBytes |-> 0]),
                                                  in + offset, GroupBytes), c, mask)
                      ELSE EncryptGroup(ReadBytes(WriteBytes(w.mem, out + offset, [k \in 1..GroupBytes |-> 0]),
                                                  in + offset, GroupBytes), c, mask)),
   log |-> Append(w.log, <<"vector", group * CHARYBDIS_AVX2_LANES>>)]
GroupStep(w, in, out, group, offset, c, mask, decrypt) ==
  [mem |-> WriteBytes(w.mem, out + offset,
                      IF decrypt THEN DecryptGroup(ReadBytes(w.mem, in + offset, GroupBytes), c, mask)
                      ELSE EncryptGroup(ReadBytes(w.mem, in + offset, GroupBytes), c, mask)),
   log |-> Append(w.log, <<"vector", group * CHARYBDIS_AVX2_LANES>>)]
RECURSIVE GroupLoop(_, _, _, _, _, _, _, _)
GroupLoop(w, in, out, group, full_groups, c, mask, decrypt) ==
  IF group >= full_groups \/ Len(w.mem) < 0 THEN w
  ELSE GroupLoop(GroupStep(w, in, out, group, group * GroupBytes, c, mask, decrypt),
                 in, out, group + 1, full_groups, c, mask, decrypt)

\* faulty variant: the tail block is written at out + i, not at out + offset
TailStepAtIndex(w, in, out, i, offset, c, decrypt) ==
  [mem |-> WriteBytes(w.mem, out + i,
                      IF decrypt
                      THEN Charybdis_DecryptBlock(ReadBytes(w.mem, in + offset, CHARYBDIS_BLOCK_SIZE),
                                                  c.scalar_subkeys)
                      ELSE Charybdis_EncryptBlock(ReadBytes(w.mem, in + offset, CHARYBDIS_BLOCK_SIZE),
                                                  c.scalar_subkeys)),
   log |-> Append(w.log, <<"scalar", i>>)]
TailStep(w, in, out, i, offset, c, decrypt) ==
  [mem |-> WriteBytes(w.mem, out + offset,
                      IF decrypt
                      THEN Charybdis_DecryptBlock(ReadBytes(w.mem, in + offset, CHARYBDIS_BLOCK_SIZE),
                                                  c.scalar_subkeys)
                      ELSE Charybdis_EncryptBlock(ReadBytes(w.mem, in + offset, CHARYBDIS_BLOCK_SIZE),
                                                  c.scalar_subkeys)),
   log |-> Append(w.log, <<"scalar", i>>)]
RECURSIVE TailLoop(_, _, _, _, _, _, _)
TailLoop(w, in, out, i, nblocks, c, decrypt) ==
  IF i >= nblocks \/ Len(w.mem) < 0 THEN w
  ELSE TailLoop(TailStep(w, in, out, i, i * CHARYBDIS_BLOCK_SIZE, c, decrypt),
                in, out, i + 1, nblocks, c, decrypt)

Returned(w) == [ret |-> 0, mem |-> w.mem, log |-> w.log]
BatchBlocks(m, in, out, nblocks, cx, p, mask, decrypt) ==
  IF BatchRejects(in, out, nblocks, cx, p)
  THEN [ret |-> -1, mem |-> m, log |-> <<>>]
  ELSE Returned(TailLoop(GroupLoop([mem |-> m, log |-> <<>>], in, out, 0,
                                   nblocks \div CHARYBDIS_AVX2_LANES, cx[p], mask, decrypt),
                         in, out, (nblocks \div CHARYBDIS_AVX2_LANES) * CHARYBDIS_AVX2_LANES,
                         nblocks, cx[p], decrypt))

\* int charybdis_avx2_encrypt_blocks(in, out, nblocks, ctx) and
\* int charybdis_avx2_decrypt_blocks(in, out, nblocks, ctx): the return value,
\* the memory afterwards and the log of the blocks processed
charybdis_avx2_encrypt_blocks(m, in, out, nblocks, cx, p, mask) ==
  BatchBlocks(m, in, out, nblocks, cx, p, mask, FALSE)
charybdis_avx2_decrypt_blocks(m, in, out, nblocks, cx, p, mask) ==
  BatchBlocks(m, in, out, nblocks, cx, p, mask, TRUE)

(***************************************************************************)
(* Inputs: schedules and plaintexts drawn from small sets                  *)
(***************************************************************************)
MaxBlocks == 9
NumKeys == 2
NumThreads == 2
MaxRuns == 2
MaxShift == 2

\* 24 x 4 x 4 arbitrary words, one schedule per seed
SubkeyWord(s, r, i, j) ==
  <<((s * 7919) + (r * 2731) + (i * 523) + (j * 97) + 12345) % 65536,
    ((s * 10473) + (r * 4099) + (i * 1031) + (j * 211) + 54321) % 65536>>
Schedule(s) ==
  LET m(r) == LET e(i, j) == SubkeyWord(s, r, i, j) IN Mat4(e)
  IN  Seq24(m)

\* a 32-byte master key per seed
MasterKey(s) == [k \in 1..32 |-> ((k * 29) + (s * 53) + 7) % 256]

\* the bytes of n blocks, every block different
PlainBytes(s, n) ==
  [k \in 1..(n * CHARYBDIS_BLOCK_SIZE) |-> ((k * 37) + (k \div 7) + (s * 101) + 11) % 256]

\* contexts that no init has built: zeroed memory, stale bytes, and stale
\* bytes whose marker word happens to hold the tag value
StaleWord == <<\hA5A5, \hA5A5>>
UninitializedContexts ==
  {ZeroContext,
   FilledContext(StaleWord, 165, StaleWord),
   FilledContext(StaleWord, 165, ContextMarker)}

(***************************************************************************)
(* State                                                                   *)
(***************************************************************************)
VARIABLES
  cpu_avx2,        \* whether CPU and OS support AVX2 on this machine
  avx2_checked,    \* static int avx2_checked
  avx2_available,  \* static int avx2_available
  avx2_swap_mask,  \* static __m256i avx2_swap_mask
  probe_calls,     \* how often charybdis_avx2_available has run
  ctx,             \* the context objects, by address
  subkeys,         \* the caller's scalar schedule
  mem,             \* the caller's buffers
  nblk,            \* the number of blocks in each buffer
  thr,             \* per thread: the call it is in and what it returned
  built,           \* contexts built by a successful init and not cleared since
  cleared,         \* contexts cleared and not built again since
  step,            \* position of the self-test
  blk,             \* block index of the self-test's scalar loop
  ks_runs          \* the runs of Charybdis_KeySchedule so far: the key, the
                   \* caller's array before the run and the array after it

vars ==
  <<cpu_avx2, avx2_checked, avx2_available, avx2_swap_mask, probe_calls, ctx,
    subkeys, mem, nblk, thr, built, cleared, step, blk, ks_runs>>

\* the address of the caller's schedule
SK == NULL + 1
Threads == DOMAIN thr
Contexts == DOMAIN ctx

\* six buffers of nblk blocks each
Buf(k) == 1 + (k * nblk * CHARYBDIS_BLOCK_SIZE)
BufBytes(k) == ReadBytes(mem, Buf(k), nblk * CHARYBDIS_BLOCK_SIZE)
PT == Buf(0)
SCT == Buf(1)
SRT == Buf(2)
CT == Buf(3)
RT == Buf(4)
DT == Buf(5)

Idle ==
  [pc |-> "idle", op |-> "none", ctxp |-> NULL, skp |-> NULL, inp |-> NULL, outp |-> NULL,
   nblocks |-> 0, ret |-> 0, pending |-> {}, probed |-> 0, marker_read |-> FALSE,
   was_cleared |-> FALSE, log |-> <<>>, i |-> 0, r |-> 0, state |-> <<>>]

\* everything but the caller's buffers
InitState(s, n) ==
  /\ avx2_checked = 0
  /\ avx2_available = 0
  /\ avx2_swap_mask = ZeroReg
  /\ probe_calls = 0
  /\ subkeys = Schedule(s)
  /\ nblk = n
  /\ built = {}
  /\ cleared = {}
  /\ blk = 0
  /\ ks_runs = <<>>
InitCommon(s, n) ==
  /\ InitState(s, n)
  /\ mem = PlainBytes(s, n) \o [k \in 1..(5 * n * CHARYBDIS_BLOCK_SIZE) |-> 0]

(***************************************************************************)
(* charybdis_avx2_init_context, one step per access to the statics         *)
(***************************************************************************)
\* "if (!ctx || !subkeys) return -1;" and "if (!avx2_available) return -1;"
NullArgumentFailure == -1
UnavailableFailure == -1

Statics == <<avx2_checked, avx2_available, avx2_swap_mask>>
Caller == <<subkeys, nblk, cpu_avx2, ks_runs>>

\* faulty variant: the memset of the context comes before the test of subkeys
InitCallClearsFirst(t, p, sk) ==
  /\ thr[t].pc = "idle"
  /\ thr' = [thr EXCEPT ![t] =
               [Idle EXCEPT !.op = "init", !.ctxp = p, !.skp = sk,
                            !.was_cleared = (p \in cleared),
                            !.pc = IF p = NULL \/ sk = NULL THEN "done" ELSE "check",
                            !.ret = IF p = NULL \/ sk = NULL THEN NullArgumentFailure ELSE 0]]
  /\ ctx' = IF p # NULL THEN [ctx EXCEPT ![p] = ZeroContext] ELSE ctx
  /\ UNCHANGED <<Statics, Caller, probe_calls, mem, built, cleared>>

\* entry: "if (!ctx || !subkeys) return -1;"
InitCall(t, p, sk) ==
  /\ thr[t].pc = "idle"
  /\ thr' = [thr EXCEPT ![t] =
               [Idle EXCEPT !.op = "init", !.ctxp = p, !.skp = sk,
                            !.was_cleared = (p \in cleared),
                            !.pc = IF p = NULL \/ sk = NULL THEN "done" ELSE "check",
                            !.ret = IF p = NULL \/ sk = NULL THEN NullArgumentFailure ELSE 0]]
  /\ UNCHANGED <<Statics, Caller, probe_calls, ctx, mem, built, cleared>>

\* "if (!avx2_checked)"
InitCheck(t) ==
  /\ thr[t].pc = "check"
  /\ thr' = [thr EXCEPT ![t].pc = IF avx2_checked = 0 THEN "probe" ELSE "avail"]
  /\ UNCHANGED <<Statics, Caller, probe_calls, ctx, mem, built, cleared, step, blk>>

\* the call charybdis_avx2_available(); its result and the two other values
\* the block assigns are stored next
InitProbe(t) ==
  /\ thr[t].pc = "probe"
  /\ probe_calls' = probe_calls + 1
  /\ thr' = [thr EXCEPT ![t].pc = "store",
                        ![t].probed = charybdis_avx2_available(cpu_avx2),
                        ![t].pending = {"avx2_available", "avx2_swap_mask", "avx2_checked"}]
  /\ UNCHANGED <<Statics, Caller, ctx, mem, built, cleared, step, blk>>

\* one of the three plain stores of the block reaches memory; nothing orders
\* them for another thread
InitStore(t, w) ==
  /\ thr[t].pc = "store"
  /\ w \in thr[t].pending
  /\ avx2_available' = IF w = "avx2_available" THEN thr[t].probed ELSE avx2_available
  /\ avx2_swap_mask' = IF w = "avx2_swap_mask" THEN SwapMask ELSE avx2_swap_mask
  /\ avx2_checked' = IF w = "avx2_checked" THEN 1 ELSE avx2_checked
  /\ thr' = [thr EXCEPT ![t].pending = @ \ {w},
                        ![t].pc = IF thr[t].pending = {w} THEN "avail" ELSE "store"]
  /\ UNCHANGED <<Caller, probe_calls, ctx, mem, built, cleared, step, blk>>

\* "if (!avx2_available) return -1;"
InitAvail(t) ==
  /\ thr[t].pc = "avail"
  /\ thr' = [thr EXCEPT ![t].pc = IF avx2_available = 0 THEN "done" ELSE "build",
                        ![t].ret = IF avx2_available = 0 THEN UnavailableFailure ELSE 0]
  /\ UNCHANGED <<Statics, Caller, probe_calls, ctx, mem, built, cleared, step, blk>>

\* memset, memcpy, the two broadcast loops and the two tags; "return 0;"
InitBuild(t) ==
  /\ thr[t].pc = "build"
  /\ ctx' = [ctx EXCEPT ![thr[t].ctxp] = BuildContext(subkeys)]
  /\ built' = built \cup {thr[t].ctxp}
  /\ cleared' = cleared \ {thr[t].ctxp}
  /\ thr' = [thr EXCEPT ![t].pc = "done", ![t].ret = 0]
  /\ UNCHANGED <<Statics, Caller, probe_calls, mem, step, blk>>

\* the caller has looked at the result of its call
Return(t) ==
  /\ thr[t].pc = "done"
  /\ thr' = [thr EXCEPT ![t] = Idle]
  /\ UNCHANGED <<Statics, Caller, probe_calls, ctx, mem, built, cleared, step, blk>>

(***************************************************************************)
(* The batch calls and clear                                               *)
(***************************************************************************)
\* the call has run: r is what it returned and left in memory
BatchDone(t, in, out, nblocks, p, decrypt, r) ==
  /\ mem' = r.mem
  /\ thr' = [thr EXCEPT ![t] =
               [Idle EXCEPT !.pc = "done",
                            !.op = IF decrypt THEN "decrypt" ELSE "encrypt",
                            !.inp = in, !.outp = out, !.nblocks = nblocks, !.ctxp = p,
                            !.was_cleared = (p \in cleared),
                            !.marker_read = MarkerRead(in, out, nblocks, p),
                            !.ret = r.ret, !.log = r.log]]
BatchCall(t, in, out, nblocks, p, decrypt) ==
  /\ thr[t].pc = "idle"
  /\ BatchDone(t, in, out, nblocks, p, decrypt,
               IF decrypt
               THEN charybdis_avx2_decrypt_blocks(mem, in, out, nblocks, ctx, p, avx2_swap_mask)
               ELSE charybdis_avx2_encrypt_blocks(mem, in, out, nblocks, ctx, p, avx2_swap_mask))
  /\ UNCHANGED <<Statics, Caller, probe_calls, ctx, built, cleared>>

EncryptCall(t, in, out, nblocks, p) == BatchCall(t, in, out, nblocks, p, FALSE)
DecryptCall(t, in, out, nblocks, p) == BatchCall(t, in, out, nblocks, p, TRUE)

ClearCall(t, p) ==
  /\ thr[t].pc = "idle"
  /\ ctx' = charybdis_avx2_clear_context(ctx, p)
  /\ cleared' = IF p # NULL THEN cleared \cup {p} ELSE cleared
  /\ built' = built \ {p}
  /\ thr' = [thr EXCEPT ![t] =
               [Idle EXCEPT !.pc = "done", !.op = "clear", !.ctxp = p,
                            !.was_cleared = (p \in cleared)]]
  /\ UNCHANGED <<Statics, Caller, probe_calls, mem>>

Progress(t) ==
  \/ InitCheck(t)
  \/ InitProbe(t)
  \/ \E w \in thr[t].pending : InitStore(t, w)
  \/ InitAvail(t)
  \/ InitBuild(t)
  \/ Return(t)

(***************************************************************************)
(* Spec: one caller, one context that starts uninitialized, every call     *)
(* with every kind of argument                                             *)
(***************************************************************************)
Init ==
  /\ cpu_avx2 \in BOOLEAN
  /\ InitCommon(1, 1)
  /\ ctx \in [{1} -> UninitializedContexts]
  /\ thr = [t \in {1} |-> Idle]
  /\ step = "api"

Pointers == {NULL} \cup Contexts

Next ==
  \/ \E t \in Threads : Progress(t)
  \/ \E t \in Threads, p \in Pointers, sk \in {NULL, SK} :
       InitCall(t, p, sk) /\ UNCHANGED <<step, blk>>
  \/ \E t \in Threads, in \in {NULL, PT}, out \in {NULL, CT}, n \in {0, nblk}, p \in Pointers :
       EncryptCall(t, in, out, n, p) /\ UNCHANGED <<step, blk>>
  \/ \E t \in Threads, in \in {NULL, PT}, out \in {NULL, CT}, n \in {0, nblk}, p \in Pointers :
       DecryptCall(t, in, out, n, p) /\ UNCHANGED <<step, blk>>
  \/ \E t \in Threads, p \in Pointers : ClearCall(t, p) /\ UNCHANGED <<step, blk>>

Spec == Init /\ [][Next]_vars

(***************************************************************************)
(* SpecData: the self-test of main, on nblk blocks: scalar encrypt and     *)
(* decrypt of every block, then init, batch encrypt, batch decrypt, clear  *)
(***************************************************************************)
InitData ==
  /\ cpu_avx2 = TRUE
  /\ \E s \in 1..NumKeys, n \in 1..MaxBlocks : InitCommon(s, n)
  /\ ctx = [c \in {1} |-> FilledContext(StaleWord, 165, StaleWord)]
  /\ thr = [t \in {1} |-> Idle]
  /\ step = "scalar_encrypt"

\* Charybdis_EncryptBlock(pt, ct, subkeys), block by block
ScalarEncrypt ==
  /\ step = "scalar_encrypt"
  /\ mem' = WriteBytes(mem, SCT + (blk * CHARYBDIS_BLOCK_SIZE),
                       Charybdis_EncryptBlock(
                         ReadBytes(mem, PT + (blk * CHARYBDIS_BLOCK_SIZE), CHARYBDIS_BLOCK_SIZE),
                         subkeys))
  /\ blk' = IF blk + 1 < nblk THEN blk + 1 ELSE 0
  /\ step' = IF blk + 1 < nblk THEN step ELSE "scalar_decrypt"
  /\ UNCHANGED <<Statics, Caller, probe_calls, ctx, thr, built, cleared>>

\* Charybdis_DecryptBlock(ct, pt_out, subkeys), block by block
ScalarDecrypt ==
  /\ step = "scalar_decrypt"
  /\ mem' = WriteBytes(mem, SRT + (blk * CHARYBDIS_BLOCK_SIZE),
                       Charybdis_DecryptBlock(
                         ReadBytes(mem, SCT + (blk * CHARYBDIS_BLOCK_SIZE), CHARYBDIS_BLOCK_SIZE),
                         subkeys))
  /\ blk' = IF blk + 1 < nblk THEN blk + 1 ELSE 0
  /\ step' = IF blk + 1 < nblk THEN step ELSE "init"
  /\ UNCHANGED <<Statics, Caller, probe_calls, ctx, thr, built, cleared>>

TestInit == step = "init" /\ InitCall(1, 1, SK) /\ step' = "encrypt" /\ UNCHANGED blk
\* charybdis_avx2_encrypt_blocks(pt, ct, nblk, &ctx)
TestEncrypt == step = "encrypt" /\ EncryptCall(1, PT, CT, nblk, 1) /\ step' = "decrypt" /\ UNCHANGED blk
\* charybdis_avx2_decrypt_blocks(ct, pt_out, nblk, &ctx)
TestDecrypt == step = "decrypt" /\ DecryptCall(1, CT, RT, nblk, 1) /\ step' = "decrypt_scalar" /\ UNCHANGED blk
\* the batch decryption of what the scalar engine encrypted
TestDecryptScalar ==
  step = "decrypt_scalar" /\ DecryptCall(1, SCT, DT, nblk, 1) /\ step' = "clear" /\ UNCHANGED blk
TestClear == step = "clear" /\ ClearCall(1, 1) /\ step' = "end" /\ UNCHANGED blk

NextData ==
  \/ ScalarEncrypt
  \/ ScalarDecrypt
  \/ TestInit
  \/ \E t \in Threads : Progress(t)
  \/ TestEncrypt
  \/ TestDecrypt
  \/ TestDecryptScalar
  \/ TestClear

SpecData == InitData /\ [][NextData]_vars

(***************************************************************************)
(* SpecRace: several threads, each initializing a context of its own       *)
(***************************************************************************)
InitRace ==
  /\ cpu_avx2 \in BOOLEAN
  /\ InitCommon(1, 1)
  /\ ctx = [c \in 1..NumThreads |-> FilledContext(StaleWord, 165, StaleWord)]
  /\ thr = [t \in 1..NumThreads |-> Idle]
  /\ step = "race"

NextRace ==
  \/ \E t \in Threads : InitCall(t, t, SK) /\ UNCHANGED <<step, blk>>
  \/ \E t \in Threads : Progress(t)

SpecRace == InitRace /\ [][NextRace]_vars

(***************************************************************************)
(* SpecKey: a caller that runs the key schedule, overwrites its array,     *)
(* initializes and clears a context, and runs the key schedule again       *)
(***************************************************************************)
InitKey ==
  /\ cpu_avx2 = TRUE
  /\ InitCommon(1, 1)
  /\ ctx = [c \in {1} |-> FilledContext(StaleWord, 165, StaleWord)]
  /\ thr = [t \in {1} |-> Idle]
  /\ step = "keys"

\* Charybdis_KeySchedule(master_key, subkeys) on the caller's array
KeyScheduleCall(s) ==
  /\ \A t \in Threads : thr[t].pc = "idle"
  /\ Len(ks_runs) < MaxRuns
  /\ subkeys' = Charybdis_KeySchedule(MasterKey(s), subkeys)
  /\ ks_runs' = Append(ks_runs, <<s, subkeys, subkeys'>>)
  /\ UNCHANGED <<Statics, nblk, cpu_avx2, probe_calls, ctx, mem, thr, built, cleared, step, blk>>

\* the caller fills its array with other words
CallerOverwrite ==
  /\ \A t \in Threads : thr[t].pc = "idle"
  /\ Len(ks_runs) > 0
  /\ subkeys # Schedule(2)
  /\ subkeys' = Schedule(2)
  /\ UNCHANGED <<Statics, nblk, cpu_avx2, ks_runs, probe_calls, ctx, mem, thr, built, cleared, step, blk>>

NextKey ==
  \/ \E s \in 1..NumKeys : KeyScheduleCall(s)
  \/ CallerOverwrite
  \/ Len(ks_runs) > 0 /\ InitCall(1, 1, SK) /\ UNCHANGED <<step, blk>>
  \/ \E t \in Threads : Progress(t)
  \/ Len(ks_runs) > 0 /\ ClearCall(1, 1) /\ UNCHANGED <<step, blk>>

SpecKey == InitKey /\ [][NextKey]_vars

(***************************************************************************)
(* SpecAlias: after init, every call is made twice on the same input, once *)
(* into a buffer of its own and once with the output over the input        *)
(***************************************************************************)
\* eleven buffers of nblk blocks: those that serve as input hold the same
\* bytes, the others hold zeros
AliasMemory(s, n) ==
  PlainBytes(s, n) \o [k \in 1..(n * CHARYBDIS_BLOCK_SIZE) |-> 0]
    \o PlainBytes(s, n) \o [k \in 1..(n * CHARYBDIS_BLOCK_SIZE) |-> 0]
    \o PlainBytes(s, n) \o [k \in 1..(n * CHARYBDIS_BLOCK_SIZE) |-> 0]
    \o PlainBytes(s, n) \o [k \in 1..(n * CHARYBDIS_BLOCK_SIZE) |-> 0]
    \o PlainBytes(s, n) \o PlainBytes(s, n) \o [k \in 1..(n * CHARYBDIS_BLOCK_SIZE) |-> 0]

\* the calls in order: the function, the direction, and the buffers of in
\* and out; "forward" is a batch call with out = in + 64 * d
AliasScript ==
  <<[call |-> "scalar", decrypt |-> FALSE, in |-> 0, out |-> 1],
    [call |-> "scalar", decrypt |-> FALSE, in |-> 2, out |-> 2],
    [call |-> "scalar", decrypt |-> TRUE, in |-> 0, out |-> 3],
    [call |-> "scalar", decrypt |-> TRUE, in |-> 4, out |-> 4],
    [call |-> "batch", decrypt |-> FALSE, in |-> 0, out |-> 5],
    [call |-> "batch", decrypt |-> FALSE, in |-> 6, out |-> 6],
    [call |-> "batch", decrypt |-> TRUE, in |-> 0, out |-> 7],
    [call |-> "batch", decrypt |-> TRUE, in |-> 8, out |-> 8],
    [call |-> "forward", decrypt |-> FALSE, in |-> 9, out |-> 9]>>
\* the next call is of kind c
NextCall(c) ==
  /\ step = "calls"
  /\ thr[1].pc = "idle"
  /\ blk < Len(AliasScript)
  /\ AliasScript[blk + 1].call = c
\* the scalar calls work on the last block of their buffers
LastBlock(k) == Buf(k) + ((nblk - 1) * CHARYBDIS_BLOCK_SIZE)

InitAlias ==
  /\ cpu_avx2 = TRUE
  /\ \E n \in 1..MaxBlocks : InitState(1, n) /\ mem = AliasMemory(1, n)
  /\ ctx = [c \in {1} |-> FilledContext(StaleWord, 165, StaleWord)]
  /\ thr = [t \in {1} |-> Idle]
  /\ step = "init"

AliasInit == step = "init" /\ InitCall(1, 1, SK) /\ step' = "calls" /\ UNCHANGED blk
AliasScalar ==
  /\ NextCall("scalar")
  /\ mem' = IF AliasScript[blk + 1].decrypt
             THEN DecryptBlockCall(mem, LastBlock(AliasScript[blk + 1].in),
                                   LastBlock(AliasScript[blk + 1].out), subkeys)
             ELSE EncryptBlockCall(mem, LastBlock(AliasScript[blk + 1].in),
                                   LastBlock(AliasScript[blk + 1].out), subkeys)
  /\ blk' = blk + 1
  /\ UNCHANGED <<Statics, Caller, probe_calls, ctx, thr, built, cleared, step>>
AliasBatch ==
  /\ NextCall("batch")
  /\ BatchCall(1, Buf(AliasScript[blk + 1].in), Buf(AliasScript[blk + 1].out), nblk, 1,
               AliasScript[blk + 1].decrypt)
  /\ blk' = blk + 1
  /\ UNCHANGED step
AliasForward(d) ==
  /\ NextCall("forward")
  /\ d < nblk
  /\ EncryptCall(1, Buf(AliasScript[blk + 1].in),
                 Buf(AliasScript[blk + 1].out) + (d * CHARYBDIS_BLOCK_SIZE), nblk, 1)
  /\ blk' = blk + 1
  /\ UNCHANGED step

NextAlias ==
  \/ AliasInit
  \/ \E t \in Threads : Progress(t)
  \/ AliasScalar
  \/ AliasBatch
  \/ \E d \in 1..MaxShift : AliasForward(d)

SpecAlias == InitAlias /\ [][NextAlias]_vars

(***************************************************************************)
(* SpecShared: several threads use one initialized context at once, each   *)
(* on buffers of its own. One thread first initializes the context and     *)
(* makes every call alone; then each thread makes one call, a batch call   *)
(* advancing one loop iteration per step.                                  *)
(***************************************************************************)
SharedOps == <<"encrypt", "decrypt", "encrypt_block", "decrypt_block">>
\* six buffers per thread: its input, its output, and the outputs of the
\* four calls made alone
In(u) == Buf(6 * (u - 1))
Out(u) == Buf((6 * (u - 1)) + 1)
Ref(u, k) == Buf((6 * (u - 1)) + 1 + k)
RECURSIVE SharedMemory(_, _)
SharedMemory(u, n) ==
  IF u > NumThreads THEN <<>>
  ELSE PlainBytes(u, n) \o [k \in 1..(5 * n * CHARYBDIS_BLOCK_SIZE) |-> 0] \o SharedMemory(u + 1, n)

InitShared ==
  /\ cpu_avx2 = TRUE
  /\ InitState(1, MaxBlocks)
  /\ mem = SharedMemory(1, MaxBlocks)
  /\ ctx = [c \in {1} |-> FilledContext(StaleWord, 165, StaleWord)]
  /\ thr = [t \in 1..NumThreads |-> Idle]
  /\ step = "init"

SharedInit == step = "init" /\ InitCall(1, 1, SK) /\ step' = "alone" /\ UNCHANGED blk

\* the calls made alone, by thread 1: call number blk is call (blk % 4) + 1
\* of SharedOps on the input of thread (blk \div 4) + 1
AloneBatch(decrypt) ==
  /\ step = "alone"
  /\ blk < 4 * NumThreads
  /\ SharedOps[(blk % 4) + 1] = (IF decrypt THEN "decrypt" ELSE "encrypt")
  /\ BatchCall(1, In((blk \div 4) + 1), Ref((blk \div 4) + 1, (blk % 4) + 1), nblk, 1, decrypt)
  /\ blk' = blk + 1
  /\ UNCHANGED step
AloneBlock(decrypt) ==
  /\ step = "alone"
  /\ thr[1].pc = "idle"
  /\ blk < 4 * NumThreads
  /\ SharedOps[(blk % 4) + 1] = (IF decrypt THEN "decrypt_block" ELSE "encrypt_block")
  /\ mem' = IF decrypt
             THEN DecryptBlockCall(mem, In((blk \div 4) + 1), Ref((blk \div 4) + 1, (blk % 4) + 1), subkeys)
             ELSE EncryptBlockCall(mem, In((blk \div 4) + 1), Ref((blk \div 4) + 1, (blk % 4) + 1), subkeys)
  /\ blk' = blk + 1
  /\ UNCHANGED <<Statics, Caller, probe_calls, ctx, thr, built, cleared, step>>
AloneEnd ==
  /\ step = "alone"
  /\ thr[1].pc = "idle"
  /\ blk = 4 * NumThreads
  /\ step' = "together"
  /\ UNCHANGED <<Statics, Caller, probe_calls, ctx, mem, thr, built, cleared, blk>>

\* thread t enters one of the four functions on its own buffers
CallEnter(t, op) ==
  /\ step = "together"
  /\ thr[t].pc = "idle"
  /\ thr' = [thr EXCEPT ![t] =
               [Idle EXCEPT !.pc = IF op \in {"encrypt", "decrypt"} THEN "batch_check" ELSE "block",
                            !.op = op, !.inp = In(t), !.outp = Out(t), !.ctxp = 1,
                            !.nblocks = IF op \in {"encrypt", "decrypt"} THEN nblk ELSE 1]]
  /\ UNCHANGED <<Statics, Caller, probe_calls, ctx, mem, built, cleared, step, blk>>

\* "if (!in || !out || !ctx || nblocks == 0 || ctx->initialized != ...) return -1;"
BatchCheck(t) ==
  /\ thr[t].pc = "batch_check"
  /\ thr' = [thr EXCEPT
               ![t].pc = IF BatchRejects(thr[t].inp, thr[t].outp, thr[t].nblocks, ctx, thr[t].ctxp)
                         THEN "done" ELSE "groups",
               ![t].ret = IF BatchRejects(thr[t].inp, thr[t].outp, thr[t].nblocks, ctx, thr[t].ctxp)
                          THEN -1 ELSE 0,
               ![t].marker_read = MarkerRead(thr[t].inp, thr[t].outp, thr[t].nblocks, thr[t].ctxp)]
  /\ UNCHANGED <<Statics, Caller, probe_calls, ctx, mem, built, cleared, step, blk>>

\* what one iteration of a loop of thread t leaves: w is the memory and the
\* log after it, cx the contexts after it
Iteration(t, w, cx) ==
  /\ mem' = w.mem
  /\ ctx' = cx
  /\ thr' = [thr EXCEPT ![t].log = w.log, ![t].i = thr[t].i + 1]
  /\ UNCHANGED <<Statics, Caller, probe_calls, built, cleared, step, blk>>

\* "for (size_t group = 0; group < full_groups; group++) { ... }", one test of
\* the loop condition and, if it holds, one iteration
BatchGroup(t) ==
  /\ thr[t].pc = "groups"
  /\ IF thr[t].i < thr[t].nblocks \div CHARYBDIS_AVX2_LANES
     THEN Iteration(t, GroupStep([mem |-> mem, log |-> thr[t].log], thr[t].inp, thr[t].outp,
                                 thr[t].i, thr[t].i * GroupBytes, ctx[thr[t].ctxp],
                                 avx2_swap_mask, thr[t].op = "decrypt"),
                    ctx)
     ELSE /\ thr' = [thr EXCEPT ![t].pc = "tail",
                                ![t].i = (thr[t].nblocks \div CHARYBDIS_AVX2_LANES) * CHARYBDIS_AVX2_LANES]
          /\ UNCHANGED <<Statics, Caller, probe_calls, ctx, mem, built, cleared, step, blk>>

\* "for (size_t i = remaining_start; i < nblocks; i++) { ... } return 0;": one
\* test of the loop condition and, if it holds, one iteration that leaves
\* the contexts cx
TailIteration(t, cx) ==
  /\ thr[t].pc = "tail"
  /\ IF thr[t].i < thr[t].nblocks
     THEN Iteration(t, TailStep([mem |-> mem, log |-> thr[t].log], thr[t].inp, thr[t].outp,
                                thr[t].i, thr[t].i * CHARYBDIS_BLOCK_SIZE, ctx[thr[t].ctxp],
                                thr[t].op = "decrypt"),
                    cx)
     ELSE /\ thr' = [thr EXCEPT ![t].pc = "done", ![t].ret = 0]
          /\ UNCHANGED <<Statics, Caller, probe_calls, ctx, mem, built, cleared, step, blk>>
\* faulty variant: the scalar path erases ctx->scalar_subkeys after use
BatchTailErasesSubkeys(t) ==
  TailIteration(t, [ctx EXCEPT ![thr[t].ctxp].scalar_subkeys = ZeroContext.scalar_subkeys])
BatchTail(t) == TailIteration(t, ctx)

\* Charybdis_EncryptBlock(in, out, subkeys) or Charybdis_DecryptBlock on the
\* first block of the thread's buffers, with the caller's schedule
BlockCall(t) ==
  /\ thr[t].pc = "block"
  /\ mem' = IF thr[t].op = "decrypt_block"
             THEN DecryptBlockCall(mem, thr[t].inp, thr[t].outp, subkeys)
             ELSE EncryptBlockCall(mem, thr[t].inp, thr[t].outp, subkeys)
  /\ thr' = [thr EXCEPT ![t].pc = "done"]
  /\ UNCHANGED <<Statics, Caller, probe_calls, ctx, built, cleared, step, blk>>

NextShared ==
  \/ SharedInit
  \/ step \in {"init", "alone"} /\ Progress(1)
  \/ \E decrypt \in BOOLEAN : AloneBatch(decrypt) \/ AloneBlock(decrypt)
  \/ AloneEnd
  \/ \E t \in Threads, k \in 1..Len(SharedOps) : CallEnter(t, SharedOps[k])
  \/ \E t \in Threads : BatchCheck(t) \/ BatchGroup(t) \/ BatchTail(t) \/ BlockCall(t)

SpecShared == InitShared /\ [][NextShared]_vars

(***************************************************************************)
(* SpecSteps: after init, one call on one unit of work (a group of 8       *)
(* blocks on the vector path, a block on the scalar path), one loop        *)
(* iteration per step; the log records each use of a subkey: the index of  *)
(* the subkey and, in a round, the index of the chunk of 16 round          *)
(* constants                                                               *)
(***************************************************************************)
KeyUse(k) == <<"key", k>>
RoundUse(k, chunk) == <<"round", k, chunk>>
\* the subkeys of the two whitening steps and the bounds of the round loop,
\* in Charybdis_EncryptBlock / charybdis_avx2_encrypt_blocks and in
\* Charybdis_DecryptBlock / charybdis_avx2_decrypt_blocks
FirstKeyAlwaysZero(decrypt) == 0
FirstKey(decrypt) == IF decrypt THEN 23 ELSE 0
LastKey(decrypt) == IF decrypt THEN 0 ELSE 23
FirstRound(decrypt) == IF decrypt THEN CHARYBDIS_ROUNDS ELSE 1
MoreRounds(r, decrypt) == IF decrypt THEN r >= 1 ELSE r <= CHARYBDIS_ROUNDS
NextRound(r, decrypt) == IF decrypt THEN r - 1 ELSE r + 1

Vector(t) == thr[t].op \in {"encrypt", "decrypt", "load_store"}
Decrypt(t) == thr[t].op \in {"decrypt", "decrypt_block"}
StepFrame == <<Statics, Caller, probe_calls, ctx, built, cleared, step, blk>>

InitSteps ==
  /\ cpu_avx2 = TRUE
  /\ \E s \in 1..NumKeys : InitCommon(s, CHARYBDIS_AVX2_LANES)
  /\ ctx = [c \in {1} |-> FilledContext(StaleWord, 165, StaleWord)]
  /\ thr = [t \in {1} |-> Idle]
  /\ step = "init"

StepsInit == step = "init" /\ InitCall(1, 1, SK) /\ step' = "steps" /\ UNCHANGED blk

\* entry: a batch call on the 8 blocks at PT, or a scalar call on the first
\* block at PT; "load_store" is a load of the 8 blocks followed at once by
\* the store
UnitEnter(t, op, out) ==
  /\ step = "steps"
  /\ thr[t].pc = "idle"
  /\ thr' = [thr EXCEPT ![t] =
               [Idle EXCEPT !.pc = "unit_load", !.op = op, !.inp = PT, !.outp = out, !.ctxp = 1,
                            !.nblocks = IF op \in {"encrypt_block", "decrypt_block"}
                                        THEN 1 ELSE CHARYBDIS_AVX2_LANES]]
  /\ UNCHANGED <<StepFrame, mem>>

\* vector: "avx2_load_8_blocks_optimized(in + offset, state);"
\* scalar: "S[i][j] = load_le32(in + 4 * (4 * i + j)) ^ subkeys[0][i][j];"
\*         (subkeys[23] in Charybdis_DecryptBlock)
UnitLoad(t) ==
  /\ thr[t].pc = "unit_load"
  /\ thr' = [thr EXCEPT
               ![t].state = IF Vector(t)
                            THEN avx2_load_8_blocks_optimized(ReadBytes(mem, thr[t].inp, GroupBytes),
                                                              avx2_swap_mask)
                            ELSE AddRoundKey(LoadState(ReadBytes(mem, thr[t].inp, CHARYBDIS_BLOCK_SIZE)),
                                             Subkey(subkeys, FirstKey(Decrypt(t)))),
               ![t].log = IF Vector(t) THEN <<>> ELSE <<KeyUse(FirstKey(Decrypt(t)))>>,
               ![t].i = FirstRound(Decrypt(t)),
               ![t].pc = IF thr[t].op = "load_store" THEN "unit_store"
                         ELSE IF Vector(t) THEN "unit_whiten" ELSE "unit_rounds"]
  /\ UNCHANGED <<StepFrame, mem>>

\* "avx2_add_round_key(state, ctx->vec_subkeys[0]);" (vec_subkeys[23] in
\* charybdis_avx2_decrypt_blocks)
UnitWhiten(t) ==
  /\ thr[t].pc = "unit_whiten"
  /\ thr' = [thr EXCEPT
               ![t].state = avx2_add_round_key(thr[t].state,
                                               ctx[thr[t].ctxp].vec_subkeys[FirstKey(Decrypt(t)) + 1]),
               ![t].log = Append(thr[t].log, KeyUse(FirstKey(Decrypt(t)))),
               ![t].pc = "unit_rounds"]
  /\ UNCHANGED <<StepFrame, mem>>

\* round r on the state of thread t, on its path and in its direction
\* vector: avx2_encrypt_round(state, ctx->vec_subkeys[r], ctx->vec_round_constants[r-1])
\* scalar: Round(S, subkeys[r], r), which takes its constants from
\*         CHARYBDIS_RC + (r - 1) * 16
RoundOf(t, r) ==
  IF Vector(t)
  THEN IF Decrypt(t)
       THEN avx2_decrypt_round(thr[t].state, ctx[thr[t].ctxp].vec_subkeys[r + 1],
                               ctx[thr[t].ctxp].vec_round_constants[(r - 1) + 1])
       ELSE avx2_encrypt_round(thr[t].state, ctx[thr[t].ctxp].vec_subkeys[r + 1],
                               ctx[thr[t].ctxp].vec_round_constants[(r - 1) + 1])
  ELSE IF Decrypt(t)
       THEN InverseRound(thr[t].state, Subkey(subkeys, r), r)
       ELSE Round(thr[t].state, Subkey(subkeys, r), r)

\* one test of the condition of the round loop and, if it holds, one round
UnitRound(t) ==
  /\ thr[t].pc = "unit_rounds"
  /\ thr' = IF MoreRounds(thr[t].i, Decrypt(t))
            THEN [thr EXCEPT ![t].state = RoundOf(t, thr[t].i),
                             ![t].log = Append(thr[t].log, RoundUse(thr[t].i, thr[t].i - 1)),
                             ![t].i = NextRound(thr[t].i, Decrypt(t))]
            ELSE [thr EXCEPT ![t].pc = "unit_final"]
  /\ UNCHANGED <<StepFrame, mem>>

\* vector: "avx2_add_round_key(state, ctx->vec_subkeys[23]);"
\* scalar: "S[i][j] ^= subkeys[23][i][j];" (index 0 when decrypting)
UnitFinal(t) ==
  /\ thr[t].pc = "unit_final"
  /\ thr' = [thr EXCEPT
               ![t].state = IF Vector(t)
                            THEN avx2_add_round_key(thr[t].state,
                                                    ctx[thr[t].ctxp].vec_subkeys[LastKey(Decrypt(t)) + 1])
                            ELSE AddRoundKey(thr[t].state, Subkey(subkeys, LastKey(Decrypt(t)))),
               ![t].log = Append(thr[t].log, KeyUse(LastKey(Decrypt(t)))),
               ![t].pc = "unit_store"]
  /\ UNCHANGED <<StepFrame, mem>>

\* vector: "avx2_store_8_blocks_optimized(state, out + offset);"
\* scalar: "store_le32(out + 4 * (4 * i + j), S[i][j]);"
UnitStore(t) ==
  /\ thr[t].pc = "unit_store"
  /\ mem' = WriteBytes(mem, thr[t].outp,
                       IF Vector(t) THEN avx2_store_8_blocks_optimized(thr[t].state, avx2_swap_mask)
                       ELSE StoreState(thr[t].state))
  /\ thr' = [thr EXCEPT ![t].pc = "done", ![t].ret = 0]
  /\ UNCHANGED StepFrame

NextSteps ==
  \/ StepsInit
  \/ thr[1].op = "init" /\ Progress(1)
  \/ UnitEnter(1, "encrypt", CT) \/ UnitEnter(1, "decrypt", RT)
  \/ UnitEnter(1, "encrypt_block", SCT) \/ UnitEnter(1, "decrypt_block", SRT)
  \/ UnitEnter(1, "load_store", DT)
  \/ UnitLoad(1)
  \/ UnitWhiten(1)
  \/ UnitRound(1)
  \/ UnitFinal(1)
  \/ UnitStore(1)

SpecSteps == InitSteps /\ [][NextSteps]_vars

(***************************************************************************)
(* SpecOps: the scalar round functions applied one call per step to a      *)
(* matrix S (with a round r and a subkey K) or to a column, following one  *)
(* of the call sequences of OpsScripts                                     *)
(***************************************************************************)
Ones32 == <<65535, 65535>>
\* words at which additions carry and subtractions borrow across all 32 bits
EdgeWords == {Zero32, Ones32, <<32768, 1>>, <<0, 65535>>}
Filled(w) == LET e(i, j) == w IN Mat4(e)
\* the matrices S: the words of a plaintext block and the two extremes
InputStates == {LoadState(PlainBytes(s, 1)) : s \in 1..NumKeys} \cup {Filled(Zero32), Filled(Ones32)}
\* the columns (a, b, c, d)
InputColumns ==
  {<<a, b, c, d>> : a \in EdgeWords, b \in EdgeWords, c \in EdgeWords, d \in EdgeWords}
    \cup {<<SubkeyWord(s, 0, 0, 0), SubkeyWord(s, 1, 1, 1), SubkeyWord(s, 2, 2, 2), SubkeyWord(s, 3, 3, 3)>> :
            s \in 1..NumKeys}

OpsScripts ==
  {<<"Round", "InverseRound">>,
   <<"SubConstants", "MixColumns", "ShiftRows", "AddRoundKey", "InverseRound">>,
   <<"Round", "AddRoundKey", "InverseShiftRows", "InverseMixColumns", "SubConstants">>,
   <<"SubConstants", "SubConstants">>,
   <<"AddRoundKey", "AddRoundKey">>,
   <<"G_Mix", "InverseG_Mix">>,
   <<"H_Mix", "InverseH_Mix">>}

\* the input of thread t, the subkey index it chose and the calls made so far
OpsInput(t) == thr[t].log[1][2]
OpsKey(t) == Subkey(subkeys, thr[t].log[1][3])
OpsCalls(t) == [n \in 1..(Len(thr[t].log) - 1) |-> thr[t].log[n + 1][1]]
\* the call f may come next: the calls so far followed by f begin a script
OpsMayCall(t, f) ==
  /\ (f \in {"G_Mix", "InverseG_Mix", "H_Mix", "InverseH_Mix"}) = (thr[t].op = "column")
  /\ \E sc \in OpsScripts :
       /\ Len(sc) >= Len(thr[t].log)
       /\ SubSeq(sc, 1, Len(thr[t].log)) = Append(OpsCalls(t), f)

InitOps ==
  /\ cpu_avx2 = TRUE
  /\ \E s \in 1..NumKeys : InitCommon(s, 1)
  /\ ctx = [c \in {1} |-> FilledContext(StaleWord, 165, StaleWord)]
  /\ thr = [t \in {1} |-> Idle]
  /\ step = "ops"

OpsFrame == <<Statics, Caller, probe_calls, ctx, mem, built, cleared, step, blk>>

\* the caller picks S, r and K, or a column
OpsEnter(t, kind, x, r, k) ==
  /\ step = "ops"
  /\ thr[t].pc = "idle"
  /\ thr' = [thr EXCEPT ![t] =
               [Idle EXCEPT !.pc = "ops", !.op = kind, !.state = x, !.i = r,
                            !.log = <<<<"input", x, k>>>>]]
  /\ UNCHANGED OpsFrame

\* what the call f leaves in the matrix or the column x
OpsResult(f, x, K, r) ==
  CASE f = "Round" -> Round(x, K, r)
    [] f = "InverseRound" -> InverseRound(x, K, r)
    [] f = "SubConstants" -> SubConstants(x, r)
    [] f = "AddRoundKey" -> AddRoundKey(x, K)
    [] f = "MixColumns" -> MixColumns(x)
    [] f = "InverseMixColumns" -> InverseMixColumns(x)
    [] f = "ShiftRows" -> ShiftRows(x)
    [] f = "InverseShiftRows" -> InverseShiftRows(x)
    [] f = "G_Mix" -> G_Mix(x, 1, 2, 3, 4)
    [] f = "InverseG_Mix" -> InverseG_Mix(x, 1, 2, 3, 4)
    [] f = "H_Mix" -> H_Mix(x, 1, 2, 3, 4)
    [] f = "InverseH_Mix" -> InverseH_Mix(x, 1, 2, 3, 4)

OpsCall(t, f) ==
  /\ thr[t].pc = "ops"
  /\ OpsMayCall(t, f)
  /\ thr' = [thr EXCEPT ![t].state = OpsResult(f, thr[t].state, OpsKey(t), thr[t].i),
                        ![t].log = Append(thr[t].log, <<f>>)]
  /\ UNCHANGED OpsFrame

OpsNames ==
  {"Round", "InverseRound", "SubConstants", "AddRoundKey", "MixColumns", "InverseMixColumns",
   "ShiftRows", "InverseShiftRows", "G_Mix", "InverseG_Mix", "H_Mix", "InverseH_Mix"}

NextOps ==
  \/ \E S \in InputStates, r \in 1..CHARYBDIS_ROUNDS, k \in {0, CHARYBDIS_SUBKEYS - 1} :
       OpsEnter(1, "matrix", S, r, k)
  \/ \E col \in InputColumns : OpsEnter(1, "column", col, 0, 0)
  \/ \E f \in OpsNames : OpsCall(1, f)

SpecOps == InitOps /\ [][NextOps]_vars

(***************************************************************************)
(* SpecSchedule: one run of Charybdis_KeySchedule, statement by statement, *)
(* followed by the context build and one scalar call on one block with the *)
(* schedule it produced, step by step as in SpecSteps.                     *)
(* thr[t].state is the memory of the local array KSS, thr[t].i the counter *)
(* of the squeeze loop, thr[t].r the counter of the loop of F_perm,        *)
(* thr[t].inp the master key the caller passed (by its number) and         *)
(* thr[t].log the steps of the sponge taken so far.                        *)
(***************************************************************************)
CHARYBDIS_KS_ROUNDS == 16

\* the index expressions of the source
C_INIT_Index(i, j) == ((i - 1) * 8) + j
RC_F_Index(r, i) == (r * 4) + i
KSC_Index(i, r, c) == (i * 32) + (r * 8) + c
RC_Index(round, i, j) == ((round - 1) * 16) + (4 * i) + j
\* the column of the n-th pointer that F_perm_Round passes for row i
RowPosition(i, n) == (i + n) % 8

InitSchedule ==
  /\ cpu_avx2 = TRUE
  /\ InitCommon(1, 1)
  /\ ctx = [c \in {1} |-> FilledContext(StaleWord, 165, StaleWord)]
  /\ thr = [t \in {1} |-> Idle]
  /\ step = "schedule"

KsFrame == <<Statics, nblk, cpu_avx2, ks_runs, probe_calls, ctx, mem, built, cleared, step, blk>>
\* the last step of the sponge that thread t took
KsLast(t) == thr[t].log[Len(thr[t].log)]

\* the call Charybdis_KeySchedule(master_key, subkeys) with master key s
\* and the caller's array
KsEnter(t, s) ==
  /\ step = "schedule"
  /\ thr[t].pc = "idle"
  /\ thr' = [thr EXCEPT ![t] =
               [Idle EXCEPT !.pc = "ks_load", !.op = "key_schedule", !.inp = s, !.skp = SK,
                            !.log = <<<<"call", subkeys>>>>]]
  /\ UNCHANGED <<KsFrame, subkeys>>

\* "KSS[0][j] = load_le32(master_key + 4 * j);" and
\* "KSS[i][j] = C_INIT[(i - 1) * 8 + j];", then the call F_perm(KSS)
KsLoad(t) ==
  /\ thr[t].pc = "ks_load"
  /\ thr' = [thr EXCEPT ![t].state = InitialKSS(MasterKey(thr[t].inp)),
                        ![t].log = Append(thr[t].log, <<"load">>),
                        ![t].r = 0,
                        ![t].pc = "ks_round"]
  /\ UNCHANGED <<KsFrame, subkeys>>

\* F_perm: one test of "r < 16" and, if it holds, the first statement of
\* F_perm_Round, "for (i = 0; i < 4; i++) KSS[i][i] += RC_F[r * 4 + i];";
\* if not, F_perm returns: to the head of the squeeze loop when it was the
\* absorbing call, to the "i++" of that loop otherwise
KsRound(t) ==
  /\ thr[t].pc = "ks_round"
  /\ thr' = IF thr[t].r < CHARYBDIS_KS_ROUNDS
            THEN [thr EXCEPT ![t].state = F_AddConstants(thr[t].state, thr[t].r),
                             ![t].pc = "ks_mix"]
            ELSE [thr EXCEPT ![t].log = Append(thr[t].log, <<"perm">>),
                             ![t].i = IF KsLast(t) = <<"load">> THEN 0 ELSE thr[t].i + 1,
                             ![t].pc = "ks_squeeze"]
  /\ UNCHANGED <<KsFrame, subkeys>>

\* the two loops of F_G_Mix calls of F_perm_Round, over columns and over
\* rows; "r++"
KsMix(t) ==
  /\ thr[t].pc = "ks_mix"
  /\ thr' = [thr EXCEPT ![t].state = F_Rows(F_Columns(thr[t].state, 0), 0),
                        ![t].r = thr[t].r + 1,
                        ![t].pc = "ks_round"]
  /\ UNCHANGED <<KsFrame, subkeys>>

\* one test of "i < 24" and, if it holds, "subkeys[i][r][c] = KSS[r][c];" and
\* the test "if (i < 23)"; if not, the function returns, and nothing has
\* written to KSS since the last F_perm
KsSqueeze(t) ==
  /\ thr[t].pc = "ks_squeeze"
  /\ IF thr[t].i < CHARYBDIS_SUBKEYS
     THEN /\ subkeys' = [subkeys EXCEPT ![thr[t].i + 1] = Squeeze(thr[t].state)]
          /\ thr' = [thr EXCEPT ![t].log = Append(thr[t].log, <<"subkey", thr[t].i>>),
                                ![t].i = IF thr[t].i < 23 THEN thr[t].i ELSE thr[t].i + 1,
                                ![t].pc = IF thr[t].i < 23 THEN "ks_counter" ELSE "ks_squeeze"]
     ELSE /\ thr' = [thr EXCEPT ![t].pc = "done", ![t].ret = 0]
          /\ UNCHANGED subkeys
  /\ UNCHANGED KsFrame

\* "KSS[0][7] += (i + 1); KSS[1][3] += (i + 1); KSS[2][6] += (i + 1);
\*  KSS[3][1] += (i + 1);"
KsCounter(t) ==
  /\ thr[t].pc = "ks_counter"
  /\ thr' = [thr EXCEPT ![t].state = AddCounter(thr[t].state, thr[t].i),
                        ![t].log = Append(thr[t].log, <<"counter", thr[t].i + 1>>),
                        ![t].pc = "ks_inject"]
  /\ UNCHANGED <<KsFrame, subkeys>>

\* "KSS[r][c] ^= KSC[i * 32 + r * 8 + c];" for all r, c, then the call
\* F_perm(KSS)
KsInject(t) ==
  /\ thr[t].pc = "ks_inject"
  /\ thr' = [thr EXCEPT ![t].state = InjectKSC(thr[t].state, thr[t].i),
                        ![t].log = Append(thr[t].log, <<"inject", thr[t].i>>),
                        ![t].r = 0,
                        ![t].pc = "ks_round"]
  /\ UNCHANGED <<KsFrame, subkeys>>

\* the caller goes on with the schedule in its array
KsReturn(t) ==
  /\ step = "schedule"
  /\ thr[t].pc = "done"
  /\ thr' = [thr EXCEPT ![t] = Idle]
  /\ step' = "init"
  /\ UNCHANGED <<Statics, Caller, probe_calls, ctx, mem, built, cleared, blk>>

NextSchedule ==
  \/ \E s \in 1..NumKeys : KsEnter(1, s)
  \/ KsLoad(1)
  \/ KsRound(1)
  \/ KsMix(1)
  \/ KsSqueeze(1)
  \/ KsCounter(1)
  \/ KsInject(1)
  \/ KsReturn(1)
  \/ StepsInit
  \/ thr[1].op = "init" /\ Progress(1)
  \/ UnitEnter(1, "encrypt_block", SCT) \/ UnitEnter(1, "decrypt_block", SRT)
  \/ UnitLoad(1)
  \/ UnitRound(1)
  \/ UnitFinal(1)
  \/ UnitStore(1)

SpecSchedule == InitSchedule /\ [][NextSchedule]_vars

(***************************************************************************)
(* The scalar convenience API (src/src/charybdis.h): a charybdis_context_t *)
(* holds nothing but the array subkeys. Each function is given the memory  *)
(* it may write and returns its return value and that memory afterwards.   *)
(***************************************************************************)
\* the array after charybdis_secure_memzero(ctx, sizeof(charybdis_context_t))
ClearedSubkeys == ZeroContext.scalar_subkeys

\* int charybdis_init(ctx, master_key); key is the 32 bytes at master_key
charybdis_init(sk, ctxp, keyp, key) ==
  IF ctxp = NULL \/ keyp = NULL THEN [ret |-> -1, subkeys |-> sk]
  ELSE [ret |-> 0, subkeys |-> Charybdis_KeySchedule(key, sk)]
\* faulty variant: a context whose subkeys are all zero is refused
charybdis_encrypt_checks_subkeys(m, sk, ctxp, in, out) ==
  IF ctxp = NULL \/ in = NULL \/ out = NULL \/ sk = ClearedSubkeys THEN [ret |-> -1, mem |-> m]
  ELSE [ret |-> 0, mem |-> EncryptBlockCall(m, in, out, sk)]
\* int charybdis_encrypt(ctx, in, out)
charybdis_encrypt(m, sk, ctxp, in, out) ==
  IF ctxp = NULL \/ in = NULL \/ out = NULL THEN [ret |-> -1, mem |-> m]
  ELSE [ret |-> 0, mem |-> EncryptBlockCall(m, in, out, sk)]
\* int charybdis_decrypt(ctx, in, out)
charybdis_decrypt(m, sk, ctxp, in, out) ==
  IF ctxp = NULL \/ in = NULL \/ out = NULL THEN [ret |-> -1, mem |-> m]
  ELSE [ret |-> 0, mem |-> DecryptBlockCall(m, in, out, sk)]
\* void charybdis_clear(ctx)
charybdis_clear(sk, ctxp) == IF ctxp # NULL THEN ClearedSubkeys ELSE sk

(***************************************************************************)
(* SpecContext: a caller with one charybdis_context_t, at address SK, that *)
(* starts with arbitrary words in it. The caller makes the calls of        *)
(* ContextScript in order, each with every combination of null and         *)
(* non-null pointers.                                                      *)
(***************************************************************************)
\* the function of each call and the buffers of in and out
ContextScript ==
  <<[call |-> "ctx_init", in |-> 0, out |-> 0],
    [call |-> "ctx_encrypt", in |-> 0, out |-> 3],
    [call |-> "ctx_decrypt", in |-> 3, out |-> 4],
    [call |-> "ctx_clear", in |-> 0, out |-> 0],
    [call |-> "ctx_encrypt", in |-> 0, out |-> 1],
    [call |-> "ctx_decrypt", in |-> 1, out |-> 2]>>
\* the address of master key s, of which the caller holds NumKeys; key 0 is
\* the null pointer
KeyAddress(s) == NULL + s

InitContext ==
  /\ cpu_avx2 = TRUE
  /\ InitCommon(1, 1)
  /\ ctx = [c \in {1} |-> FilledContext(StaleWord, 165, StaleWord)]
  /\ thr = [t \in {1} |-> Idle]
  /\ step = "context"

\* the next call of the script is a call of f
ContextNext(t, f) ==
  /\ step = "context"
  /\ thr[t].pc = "idle"
  /\ blk < Len(ContextScript)
  /\ ContextScript[blk + 1].call = f
\* the call has returned ret
ContextDone(t, f, p, in, out, ret) ==
  /\ thr' = [thr EXCEPT ![t] = [Idle EXCEPT !.pc = "done", !.op = f, !.ctxp = p, !.inp = in,
                                            !.outp = out, !.nblocks = 1, !.ret = ret]]
  /\ blk' = blk + 1
  /\ UNCHANGED <<Statics, nblk, cpu_avx2, probe_calls, ctx, built, cleared, step>>

ContextInitCall(t, p, s) ==
  /\ ContextNext(t, "ctx_init")
  /\ subkeys' = charybdis_init(subkeys, p, KeyAddress(s), MasterKey(s)).subkeys
  /\ ks_runs' = IF p # NULL /\ KeyAddress(s) # NULL THEN Append(ks_runs, <<s, subkeys, subkeys'>>) ELSE ks_runs
  /\ ContextDone(t, "ctx_init", p, KeyAddress(s), NULL,
                 charybdis_init(subkeys, p, KeyAddress(s), MasterKey(s)).ret)
  /\ UNCHANGED mem
ContextBlockCall(t, f, p, in, out) ==
  /\ ContextNext(t, f)
  /\ mem' = IF f = "ctx_decrypt" THEN charybdis_decrypt(mem, subkeys, p, in, out).mem
            ELSE charybdis_encrypt(mem, subkeys, p, in, out).mem
  /\ ContextDone(t, f, p, in, out,
                 IF f = "ctx_decrypt" THEN charybdis_decrypt(mem, subkeys, p, in, out).ret
                 ELSE charybdis_encrypt(mem, subkeys, p, in, out).ret)
  /\ UNCHANGED <<subkeys, ks_runs>>
ContextEncrypt(t, p, in, out) == ContextBlockCall(t, "ctx_encrypt", p, in, out)
ContextDecrypt(t, p, in, out) == ContextBlockCall(t, "ctx_decrypt", p, in, out)
ContextClear(t, p) ==
  /\ ContextNext(t, "ctx_clear")
  /\ subkeys' = charybdis_clear(subkeys, p)
  /\ ContextDone(t, "ctx_clear", p, NULL, NULL, 0)
  /\ UNCHANGED <<mem, ks_runs>>

NextContext ==
  \/ \E p \in {NULL, SK}, s \in 0..NumKeys : ContextInitCall(1, p, s)
  \/ \E p \in {NULL, SK}, in \in {NULL, Buf(ContextScript[(blk % Len(ContextScript)) + 1].in)},
        out \in {NULL, Buf(ContextScript[(blk % Len(ContextScript)) + 1].out)} :
       ContextEncrypt(1, p, in, out) \/ ContextDecrypt(1, p, in, out)
  \/ \E p \in {NULL, SK} : ContextClear(1, p)
  \/ Return(1)

SpecContext == InitContext /\ [][NextContext]_vars
(***************************************************************************)
(* Properties                                                              *)
(***************************************************************************)
\* block i of buffer k
Block(k, i) == ReadBytes(mem, Buf(k) + (i * CHARYBDIS_BLOCK_SIZE), CHARYBDIS_BLOCK_SIZE)
\* the self-test has gone past the named step
ScalarDone == step \notin {"scalar_encrypt", "scalar_decrypt"}
EncryptDone == step \in {"decrypt", "decrypt_scalar", "clear", "end"}
DecryptDone == step \in {"decrypt_scalar", "clear", "end"}
DecryptScalarDone == step \in {"clear", "end"}
\* thread t has returned from a batch call
BatchReturned(t) == thr[t].pc = "done" /\ thr[t].op \in {"encrypt", "decrypt"}
\* the blocks of a call over n blocks that the tail loop handles
TailBlocks(n) == ((n \div CHARYBDIS_AVX2_LANES) * CHARYBDIS_AVX2_LANES)..(n - 1)
\* log is: the groups of 8 in ascending order, then the tail blocks one by one
GroupsThenTail(log, n) ==
  /\ Len(log) = (n \div CHARYBDIS_AVX2_LANES) + Cardinality(TailBlocks(n))
  /\ \A k \in 1..(n \div CHARYBDIS_AVX2_LANES) :
       log[k] = <<"vector", (k - 1) * CHARYBDIS_AVX2_LANES>>
  /\ \A i \in TailBlocks(n) :
       log[(n \div CHARYBDIS_AVX2_LANES) + (i - ((n \div CHARYBDIS_AVX2_LANES) * CHARYBDIS_AVX2_LANES)) + 1]
         = <<"scalar", i>>

\* C1: scalar round trip. Once the scalar loops of the self-test have run,
\* every block that Charybdis_DecryptBlock recovered from the output of
\* Charybdis_EncryptBlock under the same schedule equals the plaintext block,
\* byte for byte.
C1_ScalarRoundTrip == ScalarDone => BufBytes(2) = BufBytes(0)
C1_Witness == step = "init" /\ nblk = MaxBlocks /\ BufBytes(2) = BufBytes(0)

\* C2: batch/scalar equivalence. For every block count, the output of
\* charybdis_avx2_encrypt_blocks equals the N outputs of
\* Charybdis_EncryptBlock, and the output of charybdis_avx2_decrypt_blocks
\* equals the N outputs of Charybdis_DecryptBlock on the same input.
C2_BatchEqualsScalar ==
  /\ EncryptDone => BufBytes(3) = BufBytes(1)
  /\ DecryptScalarDone => BufBytes(5) = BufBytes(2)

\* C3: batch round trip. charybdis_avx2_decrypt_blocks applied to the output
\* of charybdis_avx2_encrypt_blocks over the same N blocks and the same
\* context returns the plaintext.
C3_BatchRoundTrip == DecryptDone => BufBytes(4) = BufBytes(0)

\* C4: tail handling. A successful batch call over N blocks processes the
\* groups of 8 in ascending order on the vector path and then every block
\* from 8 * (N div 8) on, once each, with the scalar engine and the
\* context's cached scalar subkeys: the tail blocks of its output equal the
\* scalar engine's, so for N in 1..7 the whole output does.
C4_TailHandling ==
  /\ \A t \in Threads :
       (BatchReturned(t) /\ thr[t].ret = 0) => GroupsThenTail(thr[t].log, thr[t].nblocks)
  /\ EncryptDone => \A i \in TailBlocks(nblk) : Block(3, i) = Block(1, i)
  /\ DecryptScalarDone => \A i \in TailBlocks(nblk) : Block(5, i) = Block(2, i)
  /\ (EncryptDone /\ nblk < CHARYBDIS_AVX2_LANES) => BufBytes(3) = BufBytes(1)
  /\ (DecryptScalarDone /\ nblk < CHARYBDIS_AVX2_LANES) => BufBytes(5) = BufBytes(2)
C4_Witness ==
  /\ BatchReturned(1)
  /\ thr[1].ret = 0
  /\ thr[1].nblocks > CHARYBDIS_AVX2_LANES
  /\ Len(thr[1].log) = 2
  /\ Block(3, CHARYBDIS_AVX2_LANES) = Block(1, CHARYBDIS_AVX2_LANES)

\* the arguments and the context of the batch call thread t has returned from
\* are such that the call must fail
MustReject(t) ==
  \/ thr[t].inp = NULL
  \/ thr[t].outp = NULL
  \/ thr[t].ctxp = NULL
  \/ thr[t].nblocks = 0
  \/ ctx[thr[t].ctxp].initialized # ContextMarker

\* C5: batch failure modes. A batch call returns -1 when in, out or ctx is
\* null, nblocks is 0 or the context's marker differs from the expected tag,
\* and 0 in every other case; with a null ctx the marker is never read.
C5_BatchFailureModes ==
  \A t \in Threads :
    BatchReturned(t) =>
      /\ thr[t].ret = (IF MustReject(t) THEN -1 ELSE 0)
      /\ thr[t].ctxp = NULL => ~thr[t].marker_read
C5_Witness ==
  /\ BatchReturned(1)
  /\ thr[1].ret = -1
  /\ thr[1].marker_read
  /\ thr[1].nblocks > 0

\* C6 as stated: a batch call succeeds only on a context that a successful
\* init built and that no clear has erased since.
C6_OnlyBuiltContextsSucceed ==
  \A t \in Threads : (BatchReturned(t) /\ thr[t].ret = 0) => thr[t].ctxp \in built

\* C6, amended: a batch call succeeds only if the marker word of the context
\* holds the expected tag. A context built and not cleared since holds it, a
\* cleared context never does and always fails; a context no init ever built
\* is rejected unless its memory happens to hold the tag value in the marker
\* word.
C6_MarkerDecides ==
  /\ \A t \in Threads :
       (BatchReturned(t) /\ thr[t].ret = 0) => ctx[thr[t].ctxp].initialized = ContextMarker
  /\ \A p \in built : ctx[p].initialized = ContextMarker
  /\ \A p \in cleared : ctx[p].initialized # ContextMarker
  /\ \A t \in Threads :
       (BatchReturned(t) /\ thr[t].ctxp \notin built /\ thr[t].ctxp # NULL
          /\ ctx[thr[t].ctxp].initialized # ContextMarker) => thr[t].ret = -1
C6_Witness ==
  /\ BatchReturned(1)
  /\ thr[1].ret = 0
  /\ thr[1].ctxp \notin built
  /\ built = {}
  /\ cleared = {}

\* C7: clear leaves no residue. A context cleared and not initialized again
\* is zero in every byte, and every batch call on it returns failure.
C7_ClearLeavesNoResidue ==
  /\ \A p \in cleared : ctx[p] = ZeroContext
  /\ \A t \in Threads : (BatchReturned(t) /\ thr[t].ctxp \in cleared) => thr[t].ret = -1
C7_Witness ==
  /\ BatchReturned(1)
  /\ thr[1].ctxp \in cleared
  /\ thr[1].inp # NULL
  /\ thr[1].outp # NULL
  /\ thr[1].nblocks > 0
  /\ thr[1].ret = -1

\* thread t enters and leaves charybdis_avx2_clear_context in this step
ClearStep(t) == thr[t].pc = "idle" /\ thr'[t].pc = "done" /\ thr'[t].op = "clear"

\* C8: clear is idempotent and null-safe. A clear with a null pointer changes
\* no context, no static and no buffer; a clear of a context that is already
\* cleared leaves it as it was, all zero.
C8_ClearIdempotentNullSafe ==
  [][\A t \in Threads :
       ClearStep(t) =>
         /\ thr'[t].ctxp = NULL =>
              (ctx' = ctx /\ mem' = mem /\ built' = built /\ cleared' = cleared
                 /\ Statics' = Statics)
         /\ (thr'[t].ctxp # NULL /\ thr'[t].ctxp \in cleared) =>
              (ctx' = ctx /\ ctx'[thr'[t].ctxp] = ZeroContext)]_vars
C8_Witness ==
  /\ thr[1].pc = "done"
  /\ thr[1].op = "clear"
  /\ thr[1].ctxp # NULL
  /\ thr[1].was_cleared
  /\ ctx[thr[1].ctxp] = ZeroContext

\* C9: init fails distinctly. When AVX2 is unavailable the failure that
\* charybdis_avx2_init_context returns for valid arguments differs from the
\* failure it returns for null arguments.
C9_UnavailableFailsDistinctly ==
  \A t \in Threads :
    (thr[t].pc = "done" /\ thr[t].op = "init" /\ thr[t].ctxp # NULL /\ thr[t].skp # NULL
       /\ thr[t].ret # 0) => thr[t].ret # NullArgumentFailure

\* C10: the probe runs at most once, whatever the interleaving of the init
\* calls.
C10_ProbeRunsOnce == probe_calls <= 1

\* C11: key-schedule determinism. Any two runs of Charybdis_KeySchedule with
\* the same master key leave the same 24 subkeys in the caller's array,
\* whatever the array held before each run and whatever the caller did in
\* between (other keys, overwriting the array, building and clearing a
\* context).
C11_KeyScheduleDeterministic ==
  \A a, b \in 1..Len(ks_runs) :
    ks_runs[a][1] = ks_runs[b][1] => ks_runs[a][3] = ks_runs[b][3]
C11_Witness ==
  /\ Len(ks_runs) = 2
  /\ ks_runs[1][1] = ks_runs[2][1]
  /\ ks_runs[1][2] # ks_runs[2][2]
  /\ ks_runs[2][2] = Schedule(2)
  /\ ks_runs[1][3] = ks_runs[2][3]
  /\ avx2_checked = 1

\* the first n calls of the aliasing script have returned
CallsDone(n) == step = "calls" /\ blk >= n
\* the last block of buffer k
Last(k) == Block(k, nblk - 1)

\* C12: exact aliasing of the batch engine. For every block count, a batch
\* encryption (decryption) with out = in leaves in the buffer the same bytes
\* as the same call on the same input with an output buffer of its own.
C12_ExactAliasing ==
  /\ CallsDone(6) => BufBytes(6) = BufBytes(5)
  /\ CallsDone(8) => BufBytes(8) = BufBytes(7)
C12_Witness ==
  /\ CallsDone(8)
  /\ nblk = MaxBlocks
  /\ BufBytes(6) = BufBytes(5)
  /\ BufBytes(8) = BufBytes(7)
  /\ BufBytes(6) # BufBytes(0)
  /\ BufBytes(8) # BufBytes(6)

\* C13: forward overlap of the batch engine. For every block count, a batch
\* encryption whose output starts d >= 1 blocks behind the start of its
\* input, inside the input, writes the same bytes as the same call on the
\* same input with an output buffer of its own.
C13_ForwardOverlap ==
  (BatchReturned(1) /\ thr[1].inp = Buf(9) /\ thr[1].outp > thr[1].inp) =>
    ReadBytes(mem, thr[1].outp, nblk * CHARYBDIS_BLOCK_SIZE) = BufBytes(5)

\* C14: single-block in-place operation. Charybdis_EncryptBlock and
\* Charybdis_DecryptBlock called with out = in leave in the block the same
\* bytes as the same call on the same input with an output block of its own.
C14_ScalarInPlace ==
  /\ CallsDone(2) => Last(2) = Last(1)
  /\ CallsDone(4) => Last(4) = Last(3)
C14_Witness ==
  /\ CallsDone(4)
  /\ Last(2) = Last(1)
  /\ Last(4) = Last(3)
  /\ Last(2) # Last(0)
  /\ Last(4) # Last(2)

\* the position of op in SharedOps
OpIndex(op) == CHOOSE k \in 1..Len(SharedOps) : SharedOps[k] = op
\* the bytes a call of nblocks blocks leaves at address a
Output(a, nblocks) == ReadBytes(mem, a, nblocks * CHARYBDIS_BLOCK_SIZE)
\* thread t has returned from its call while the threads run together
TogetherDone(t) == step = "together" /\ thr[t].pc = "done"

\* C15: read-only concurrent use. While threads run batch and single-block
\* calls on one initialized context, each on buffers of its own, in any
\* interleaving, the context, the schedule and the statics stay as init
\* left them, and every call that has returned succeeded and left the
\* output that the same call left when it ran alone.
C15_ConcurrentReadOnly ==
  /\ step = "together" =>
       /\ ctx[1] = BuildContext(subkeys)
       /\ subkeys = Schedule(1)
       /\ avx2_swap_mask = SwapMask
       /\ avx2_checked = 1
       /\ avx2_available = 1
  /\ \A t \in Threads :
       TogetherDone(t) =>
         /\ thr[t].ret = 0
         /\ Output(Out(t), thr[t].nblocks) = Output(Ref(t, OpIndex(thr[t].op)), thr[t].nblocks)
C15_Witness ==
  /\ TogetherDone(1)
  /\ thr[1].op = "encrypt"
  /\ Output(Out(1), nblk) = Output(Ref(1, 1), nblk)
  /\ Output(Out(1), nblk) # Output(In(1), nblk)
  /\ thr[2].pc = "tail"
  /\ thr[2].op = "decrypt"
  /\ Len(thr[2].log) = 1

\* the state of thread t is what avx2_load_8_blocks_optimized left
Loaded(t) ==
  /\ step = "steps"
  /\ \/ thr[t].pc = "unit_whiten"
     \/ thr[t].pc = "unit_store" /\ thr[t].op = "load_store"
\* lane k of register state[row][col] of thread t
Lane(t, row, col, k) == At(thr[t].state, row, col)[k + 1]
\* word (row, col) of input block k as the scalar engine loads it
ScalarWord(k, row, col) == At(LoadState(Block(0, k)), row, col)
\* the same four bytes taken in the opposite order
Swap32(w) == <<((w[2] % 256) * 256) + (w[2] \div 256), ((w[1] % 256) * 256) + (w[1] \div 256)>>

\* C16: one byte order on both paths. Every word that the vector load puts
\* into a lane is a word of the input as the scalar engine reads it: four
\* bytes 4k..4k+3 of a block, byte 4k least significant.
C16_OneByteOrder ==
  Loaded(1) =>
    \A row \in 0..3, col \in 0..3, k \in 0..(CHARYBDIS_AVX2_LANES - 1) :
      \E b \in 0..(CHARYBDIS_AVX2_LANES - 1), r \in 0..3, c \in 0..3 :
        Lane(1, row, col, k) = ScalarWord(b, r, c)

\* C17: vector load layout. After the load, lane k of state[row][col] holds
\* the four bytes of word (row, col) of block k, whatever the byte order in
\* which the load assembles a word.
C17_LoadLayout ==
  Loaded(1) =>
    \A row \in 0..3, col \in 0..3, k \in 0..(CHARYBDIS_AVX2_LANES - 1) :
      Lane(1, row, col, k) \in {ScalarWord(k, row, col), Swap32(ScalarWord(k, row, col))}

\* C18: vector store inverts vector load. The store applied to the state
\* that the load produced from 512 bytes writes back the same 512 bytes.
C18_StoreInvertsLoad ==
  (step = "steps" /\ thr[1].pc = "done" /\ thr[1].op = "load_store") =>
    Output(DT, CHARYBDIS_AVX2_LANES) = Output(PT, CHARYBDIS_AVX2_LANES)

\* C19: context build invariant. In a context that a successful init built,
\* until it is cleared or initialized again, every lane of vec_subkeys[r][i][j]
\* equals subkeys[r][i][j], every lane of vec_round_constants[r-1][i][j]
\* equals CHARYBDIS_RC[16*(r-1)+4*i+j] for r in 1..22, and scalar_subkeys
\* equals the schedule that was passed to init.
C19_ContextBuildInvariant ==
  \A p \in built :
    /\ ctx[p].scalar_subkeys = subkeys
    /\ \A i \in 0..3, j \in 0..3, k \in 1..CHARYBDIS_AVX2_LANES :
         /\ \A r \in 0..(CHARYBDIS_SUBKEYS - 1) :
              At(ctx[p].vec_subkeys[r + 1], i, j)[k] = At(Subkey(subkeys, r), i, j)
         /\ \A r \in 1..CHARYBDIS_ROUNDS :
              At(ctx[p].vec_round_constants[(r - 1) + 1], i, j)[k]
                = CHARYBDIS_RC[(16 * (r - 1)) + (4 * i) + j + 1]
C19_Witness ==
  /\ BatchReturned(1)
  /\ thr[1].ret = 0
  /\ thr[1].ctxp \in built
  /\ At(ctx[thr[1].ctxp].vec_subkeys[24], 3, 3)[CHARYBDIS_AVX2_LANES] = At(Subkey(subkeys, 23), 3, 3)
  /\ At(ctx[thr[1].ctxp].vec_round_constants[22], 3, 3)[CHARYBDIS_AVX2_LANES] = CHARYBDIS_RC[352]

\* the uses of subkeys that C20 states, in order
EncryptUses ==
  <<KeyUse(0)>> \o [r \in 1..CHARYBDIS_ROUNDS |-> RoundUse(r, r - 1)] \o <<KeyUse(23)>>
DecryptUses ==
  <<KeyUse(23)>> \o [n \in 1..CHARYBDIS_ROUNDS |-> RoundUse(23 - n, 22 - n)] \o <<KeyUse(0)>>
Uses(t) == IF Decrypt(t) THEN DecryptUses ELSE EncryptUses
\* what the whole call leaves in the output, by the function run in one piece
WholeCall(t) ==
  IF thr[t].op = "encrypt" THEN EncryptGroup(Output(PT, CHARYBDIS_AVX2_LANES), ctx[1], avx2_swap_mask)
  ELSE IF thr[t].op = "decrypt" THEN DecryptGroup(Output(PT, CHARYBDIS_AVX2_LANES), ctx[1], avx2_swap_mask)
  ELSE IF thr[t].op = "encrypt_block" THEN Charybdis_EncryptBlock(Output(PT, 1), subkeys)
  ELSE Charybdis_DecryptBlock(Output(PT, 1), subkeys)

\* C20: subkey usage order. On the scalar and on the vector path, encryption
\* uses subkey 0, then in rounds 1..22 in ascending order subkey r with the
\* constants of round r, then subkey 23; decryption uses subkey 23, then in
\* rounds 22..1 in descending order subkey r with the constants of round r,
\* then subkey 0; a finished call has used each of the 24 subkeys once.
C20_SubkeyUsageOrder ==
  \A t \in Threads :
    (step = "steps" /\ thr[t].op \in {"encrypt", "decrypt", "encrypt_block", "decrypt_block"}) =>
      /\ Len(thr[t].log) <= CHARYBDIS_SUBKEYS
      /\ \A n \in 1..Len(thr[t].log) : thr[t].log[n] = Uses(t)[n]
      /\ thr[t].pc = "done" =>
           /\ thr[t].log = Uses(t)
           /\ \A k \in 0..(CHARYBDIS_SUBKEYS - 1) :
                Cardinality({n \in 1..Len(thr[t].log) : thr[t].log[n][2] = k}) = 1
           /\ Output(thr[t].outp, thr[t].nblocks) = WholeCall(t)
C20_Witness ==
  /\ step = "steps"
  /\ thr[1].pc = "done"
  /\ thr[1].op = "decrypt"
  /\ Len(thr[1].log) = CHARYBDIS_SUBKEYS
  /\ thr[1].log[1] = KeyUse(23)
  /\ thr[1].log[2] = RoundUse(22, 21)
  /\ thr[1].log[24] = KeyUse(0)

\* thread t has made exactly the calls sc, in this order
OpsDone(t, sc) == step = "ops" /\ thr[t].pc = "ops" /\ OpsCalls(t) = sc

\* C21: the inverse round undoes the forward round. For every matrix S,
\* subkey K and round r in 1..22, InverseRound after Round with the same K
\* and r returns S; Round is SubConstants(r), ColumnMix of each column,
\* ShiftRows, AddRoundKey in that order, and InverseRound is AddRoundKey,
\* InverseShiftRows, InverseColumnMix, SubConstants(r) in that order.
C21_InverseRoundUndoesRound ==
  /\ OpsDone(1, <<"Round", "InverseRound">>) => thr[1].state = OpsInput(1)
  /\ OpsDone(1, <<"SubConstants", "MixColumns", "ShiftRows", "AddRoundKey">>) =>
       thr[1].state = Round(OpsInput(1), OpsKey(1), thr[1].i)
  /\ OpsDone(1, <<"SubConstants", "MixColumns", "ShiftRows", "AddRoundKey", "InverseRound">>) =>
       thr[1].state = OpsInput(1)
  /\ OpsDone(1, <<"Round", "AddRoundKey", "InverseShiftRows", "InverseMixColumns", "SubConstants">>) =>
       thr[1].state = OpsInput(1)
C21_Witness ==
  /\ OpsDone(1, <<"Round", "InverseRound">>)
  /\ thr[1].i = CHARYBDIS_ROUNDS
  /\ thr[1].state = OpsInput(1)
  /\ OpsInput(1) = LoadState(PlainBytes(1, 1))
  /\ Round(OpsInput(1), OpsKey(1), thr[1].i) # OpsInput(1)

\* C24: the ARX mixing functions are exactly invertible with wrap-around
\* arithmetic. For all words a, b, c, d, InverseG_Mix after G_Mix and
\* InverseH_Mix after H_Mix return (a, b, c, d), every sum and difference
\* being taken mod 2^32; G_Mix rotates right by 13, 19, 23, 29 and H_Mix by
\* 9, 17, 21, 27.
C24_MixInvertible ==
  /\ OpsDone(1, <<"G_Mix", "InverseG_Mix">>) => thr[1].state = OpsInput(1)
  /\ OpsDone(1, <<"H_Mix", "InverseH_Mix">>) => thr[1].state = OpsInput(1)
  /\ (step = "ops" /\ thr[1].op = "column") =>
       \A n \in 1..4 : thr[1].state[n][1] \in 0..65535 /\ thr[1].state[n][2] \in 0..65535
  /\ <<R1, R2, R3, R4>> = <<13, 19, 23, 29>>
  /\ <<RH1, RH2, RH3, RH4>> = <<9, 17, 21, 27>>
\* a sum that wraps: a + b passes 2^32 in the first statement of G_Mix
C24_Witness ==
  /\ OpsDone(1, <<"G_Mix", "InverseG_Mix">>)
  /\ OpsInput(1) = <<Ones32, Ones32, <<32768, 1>>, Zero32>>
  /\ thr[1].state = OpsInput(1)

\* C25: self-inverse operations. For every matrix S, SubConstants applied
\* twice with the same round r in 1..22 returns S, and AddRoundKey applied
\* twice with the same subkey K returns S.
C25_SelfInverse ==
  /\ OpsDone(1, <<"SubConstants", "SubConstants">>) => thr[1].state = OpsInput(1)
  /\ OpsDone(1, <<"AddRoundKey", "AddRoundKey">>) => thr[1].state = OpsInput(1)
C25_Witness ==
  /\ OpsDone(1, <<"SubConstants", "SubConstants">>)
  /\ thr[1].i = CHARYBDIS_ROUNDS
  /\ thr[1].state = OpsInput(1)
  /\ SubConstants(OpsInput(1), thr[1].i) # OpsInput(1)

\* the steps of the sponge in the order C22 states: load, permutation, then
\* for i = 0..22 subkey i, counter i + 1, injection i, permutation, then
\* subkey 23
KsProtocolStep(n) ==
  IF n % 4 = 0 THEN <<"subkey", n \div 4>>
  ELSE IF n % 4 = 1 THEN <<"counter", (n \div 4) + 1>>
  ELSE IF n % 4 = 2 THEN <<"inject", n \div 4>>
  ELSE <<"perm">>
KsProtocol ==
  <<<<"load">>, <<"perm">>>> \o [n \in 1..(4 * (CHARYBDIS_SUBKEYS - 1)) |-> KsProtocolStep(n - 1)]
    \o <<<<"subkey", CHARYBDIS_SUBKEYS - 1>>>>
\* the steps thread t has taken, without the record of the call itself
KsSteps(t) == SubSeq(thr[t].log, 2, Len(thr[t].log))
KsRunning(t) == step = "schedule" /\ thr[t].op = "key_schedule"
KsReturned(t) == KsRunning(t) /\ thr[t].pc = "done"
\* the four words that receive the counter
CounterWords == {KP(0, 7), KP(1, 3), KP(2, 6), KP(3, 1)}

\* C22, the order of the steps: the steps taken are the first steps of the
\* protocol; a subkey is the words of columns 0..3 of the four rows of the
\* state at that time; a run that has returned has taken all the steps, 24
\* permutations among them, the last step being subkey 23, and has left
\* what the function computes in one piece.
KsOrder ==
  \A t \in Threads :
    KsRunning(t) =>
      /\ Len(KsSteps(t)) <= Len(KsProtocol)
      /\ KsSteps(t) = SubSeq(KsProtocol, 1, Len(KsSteps(t)))
      /\ (KsLast(t)[1] = "subkey" /\ thr[t].pc # "done") =>
           \A r \in 0..3, c \in 0..3 :
             At(subkeys[KsLast(t)[2] + 1], r, c) = thr[t].state[(8 * r) + c + 1]
      /\ thr[t].pc = "done" =>
           /\ KsSteps(t) = KsProtocol
           /\ Cardinality({n \in 1..Len(KsSteps(t)) : KsSteps(t)[n] = <<"perm">>}) = 24
           /\ KsLast(t) = <<"subkey", 23>>
           /\ subkeys = Charybdis_KeySchedule(MasterKey(thr[t].inp), thr[t].log[1][2])
\* C22, the perturbation: the counter step adds i + 1 mod 2^32 to the words
\* (0,7), (1,3), (2,6), (3,1) and changes no other word; the injection XORs
\* word k of the state with word 32 * i + k of KSC, for k in 0..31.
KsPerturbation ==
  \A t \in Threads :
    /\ (thr[t].pc = "ks_counter" /\ thr'[t].pc = "ks_inject") =>
         \A k \in 1..32 :
           thr'[t].state[k] = IF k \in CounterWords
                              THEN ADD32(thr[t].state[k], <<0, thr[t].i + 1>>)
                              ELSE thr[t].state[k]
    /\ (thr[t].pc = "ks_inject" /\ thr'[t].pc = "ks_round") =>
         \A k \in 0..31 :
           thr'[t].state[k + 1] = XOR32(thr[t].state[k + 1], KSC[(32 * thr[t].i) + k + 1])

\* C22: the squeeze protocol of the key schedule. After one initial
\* permutation, for i = 0..23 subkey i is copied from columns 0..3 of the
\* four rows of the state before the perturbation of that step; for i < 23
\* the step then adds i + 1 to four words, XORs the state with words
\* 32 * i .. 32 * i + 31 of KSC and runs the permutation, in that order; the
\* permutation runs 24 times and never after subkey 23.
C22_SqueezeProtocol == []KsOrder /\ [][KsPerturbation]_vars
C22_Witness ==
  /\ KsReturned(1)
  /\ KsSteps(1) = KsProtocol
  /\ subkeys[CHARYBDIS_SUBKEYS] # subkeys[CHARYBDIS_SUBKEYS - 1]
  /\ subkeys # thr[1].log[1][2]

\* C23: the key-schedule state is destroyed after expansion. When
\* Charybdis_KeySchedule has returned, the memory of its array KSS holds no
\* key-dependent word: every word of it is zero.
C23_StateErased ==
  \A t \in Threads : KsReturned(t) => \A k \in 1..32 : thr[t].state[k] = Zero32

\* the 4 x 4 word matrix that lane k of the sixteen registers forms
LaneMatrix(state, k) == LET e(i, j) == At(state, i, j)[k] IN Mat4(e)
\* thread t runs one round of the vector round loop in this step
VectorRoundStep(t) ==
  /\ step = "steps"
  /\ thr[t].pc = "unit_rounds"
  /\ thr[t].op \in {"encrypt", "decrypt"}
  /\ MoreRounds(thr[t].i, Decrypt(t))
  /\ thr'[t].i # thr[t].i

\* C26: the vector round equals the scalar round lane by lane. Whatever the
\* sixteen registers hold, avx2_encrypt_round leaves in lane k of every
\* register the word that Round computes for the matrix that lane k forms,
\* with the subkey and the constants of the same round, and
\* avx2_decrypt_round likewise the word that InverseRound computes.
C26_VectorRoundIsScalarRound ==
  [][\A t \in Threads :
       VectorRoundStep(t) =>
         \A k \in 1..CHARYBDIS_AVX2_LANES :
           LaneMatrix(thr'[t].state, k)
             = IF Decrypt(t)
               THEN InverseRound(LaneMatrix(thr[t].state, k), Subkey(subkeys, thr[t].i), thr[t].i)
               ELSE Round(LaneMatrix(thr[t].state, k), Subkey(subkeys, thr[t].i), thr[t].i)]_vars
C26_Witness ==
  /\ step = "steps"
  /\ thr[1].pc = "unit_final"
  /\ thr[1].op = "decrypt"
  /\ thr[1].i = 0
  /\ Len(thr[1].log) = CHARYBDIS_ROUNDS + 1
  /\ LaneMatrix(thr[1].state, 1) # LaneMatrix(thr[1].state, CHARYBDIS_AVX2_LANES)

\* thread t has returned from charybdis_avx2_init_context with a failure
InitFailed(t) == thr[t].pc = "done" /\ thr[t].op = "init" /\ thr[t].ret = -1
\* a step of thread t that may write the context: the build of an init call
\* that returns 0, or a clear
ContextWriter(t) ==
  \/ thr[t].pc = "build" /\ thr'[t].pc = "done" /\ thr'[t].ret = 0
  \/ thr[t].pc = "idle" /\ thr'[t].op = "clear"
\* a step of thread t that may write the buffers: a batch call that returns 0
BufferWriter(t) ==
  thr[t].pc = "idle" /\ BatchReturned(t)' /\ thr'[t].ret = 0
\* a context that was built and not cleared is valid and as init built it
StillValid ==
  \A t \in Threads :
    (InitFailed(t) /\ thr[t].ctxp \in built) =>
      /\ ctx[thr[t].ctxp].initialized = ContextMarker
      /\ ctx[thr[t].ctxp] = BuildContext(subkeys)
\* no step of a call that fails writes a byte
FailuresWriteNothing ==
  /\ ctx' # ctx => \E t \in Threads : ContextWriter(t)
  /\ mem' # mem => \E t \in Threads : BufferWriter(t)
  /\ \A t \in Threads :
       ((BatchReturned(t)' \/ InitFailed(t)') /\ thr[t].pc # "done" /\ thr'[t].ret = -1) =>
         (mem' = mem /\ ctx' = ctx)

\* C27: failing calls change nothing. A batch call that returns -1 writes no
\* byte of the output buffer; an init call that returns -1, for a null
\* argument or because AVX2 is unavailable, writes no byte of the context,
\* so a context that was valid before a failed init is valid and unchanged
\* after it.
C27_FailingCallsChangeNothing == []StillValid /\ [][FailuresWriteNothing]_vars
C27_Witness ==
  /\ InitFailed(1)
  /\ thr[1].ctxp \in built
  /\ thr[1].skp = NULL
  /\ ctx[thr[1].ctxp] = BuildContext(subkeys)
  /\ BufBytes(3) # BufBytes(4)

\* thread t has returned from charybdis_avx2_init_context
InitReturned(t) == thr[t].pc = "done" /\ thr[t].op = "init"
\* a thread that has read avx2_checked as set, or has set it itself, finds
\* the two values it guards written
FlagPublishedLast ==
  \A t \in Threads :
    thr[t].pc = "avail" =>
      /\ avx2_available = charybdis_avx2_available(cpu_avx2)
      /\ avx2_swap_mask = SwapMask
\* every call, made with non-null arguments, returns what it returns alone
ReturnsAsAlone ==
  \A t \in Threads :
    (InitReturned(t) /\ thr[t].ctxp # NULL /\ thr[t].skp # NULL) =>
      thr[t].ret = (IF cpu_avx2 THEN 0 ELSE -1)
\* a context that init built is never there while the mask is unset
BuiltAfterMask == built # {} => avx2_swap_mask = SwapMask

\* C28: racing first-time initializations are safe. In every interleaving
\* of concurrent first calls of charybdis_avx2_init_context, no thread sees
\* avx2_checked set before avx2_available and avx2_swap_mask are written,
\* every call returns what it returns when run alone, and no context is
\* built, and so usable by a batch call, while avx2_swap_mask is unset.
C28_RacingInitSafe == FlagPublishedLast /\ ReturnsAsAlone /\ BuiltAfterMask

\* thread t has returned from a call of the convenience API
ContextReturned(t) == step = "context" /\ thr[t].pc = "done"
ContextBlockReturned(t) == ContextReturned(t) /\ thr[t].op \in {"ctx_encrypt", "ctx_decrypt"}
\* 24 subkeys of 16 zero words
ZeroSubkeys == LET z(r) == Filled(Zero32) IN Seq24(z)
\* what the block function of the call leaves for its input under all-zero
\* subkeys
UnderZeroSubkeys(t) ==
  IF thr[t].op = "ctx_decrypt" THEN Charybdis_DecryptBlock(Output(thr[t].inp, 1), ZeroSubkeys)
  ELSE Charybdis_EncryptBlock(Output(thr[t].inp, 1), ZeroSubkeys)
\* the return values, and the work of a call on a cleared context
ContextReturns ==
  \A t \in Threads :
    /\ (ContextReturned(t) /\ thr[t].op = "ctx_init") =>
         thr[t].ret = (IF thr[t].ctxp = NULL \/ thr[t].inp = NULL THEN -1 ELSE 0)
    /\ ContextBlockReturned(t) =>
         thr[t].ret = (IF thr[t].ctxp = NULL \/ thr[t].inp = NULL \/ thr[t].outp = NULL THEN -1 ELSE 0)
    /\ (ContextReturned(t) /\ thr[t].op = "ctx_clear" /\ thr[t].ctxp # NULL) =>
         \A r \in 0..(CHARYBDIS_SUBKEYS - 1), i \in 0..3, j \in 0..3 :
           At(Subkey(subkeys, r), i, j) = Zero32
    /\ (ContextBlockReturned(t) /\ blk > 4 /\ subkeys = ZeroSubkeys
          /\ thr[t].ctxp # NULL /\ thr[t].inp # NULL /\ thr[t].outp # NULL) =>
         Output(thr[t].outp, 1) = UnderZeroSubkeys(t)
\* a call that fails, and a clear of the null pointer, write nothing
ContextFailuresWriteNothing ==
  \A t \in Threads :
    (step = "context" /\ thr[t].pc = "idle" /\ thr'[t].pc = "done"
       /\ (thr'[t].ret = -1 \/ (thr'[t].op = "ctx_clear" /\ thr'[t].ctxp = NULL))) =>
      (subkeys' = subkeys /\ mem' = mem)

\* C29: the scalar convenience context has no validity state.
\* charybdis_init, charybdis_encrypt and charybdis_decrypt return -1 exactly
\* when one of their pointer arguments is null and 0 otherwise; after
\* charybdis_clear, which zeroes the 24 subkeys and does nothing for a null
\* pointer, charybdis_encrypt and charybdis_decrypt still return 0 and work
\* with all-zero subkeys.
C29_NoValidityState == []ContextReturns /\ [][ContextFailuresWriteNothing]_vars
C29_Witness ==
  /\ ContextBlockReturned(1)
  /\ thr[1].op = "ctx_encrypt"
  /\ blk = 5
  /\ thr[1].ret = 0
  /\ subkeys = ZeroSubkeys
  /\ Len(ks_runs) = 1
  /\ Output(thr[1].outp, 1) # Output(thr[1].inp, 1)

\* entry k, counted from 0, of a table
Entry(table, k) == table[k + 1]
InTable(table, k) == k \in 0..(Len(table) - 1)
\* the columns of the first and of the second F_G_Mix call on row i
FirstGroup(i) == {RowPosition(i, n) : n \in 0..3}
SecondGroup(i) == {RowPosition(i, n) : n \in 4..7}

\* the load of the key-schedule state reads C_INIT at (i - 1) * 8 + j
LoadIndices(t) ==
  (thr[t].pc = "ks_load" /\ thr'[t].pc = "ks_round") =>
    \A i \in 1..3, j \in 0..7 :
      /\ InTable(C_INIT, C_INIT_Index(i, j))
      /\ C_INIT_Index(i, j) \in 0..23
      /\ thr'[t].state[KP(i, j)] = Entry(C_INIT, C_INIT_Index(i, j))
\* round r of the permutation reads RC_F at r * 4 + i
PermIndices(t) ==
  (thr[t].pc = "ks_round" /\ thr'[t].pc = "ks_mix") =>
    \A i \in 0..3 :
      /\ InTable(RC_F, RC_F_Index(thr[t].r, i))
      /\ RC_F_Index(thr[t].r, i) \in 0..63
      /\ thr'[t].state[KP(i, i)] = ADD32(thr[t].state[KP(i, i)], Entry(RC_F, RC_F_Index(thr[t].r, i)))
\* the row calls of the permutation take columns in 0..7, the two calls on
\* a row four columns each, together the whole row
RowIndices(t) ==
  (thr[t].pc = "ks_mix" /\ thr'[t].pc = "ks_round") =>
    \A i \in 0..3 :
      /\ FirstGroup(i) \cup SecondGroup(i) = 0..7
      /\ FirstGroup(i) \cap SecondGroup(i) = {}
      /\ Cardinality(FirstGroup(i)) = 4
      /\ Cardinality(SecondGroup(i)) = 4
\* squeeze step i reads KSC at i * 32 + r * 8 + c
InjectIndices(t) ==
  (thr[t].pc = "ks_inject" /\ thr'[t].pc = "ks_round") =>
    \A r \in 0..3, c \in 0..7 :
      /\ InTable(KSC, KSC_Index(thr[t].i, r, c))
      /\ KSC_Index(thr[t].i, r, c) \in 0..735
      /\ thr'[t].state[KP(r, c)] = XOR32(thr[t].state[KP(r, c)], Entry(KSC, KSC_Index(thr[t].i, r, c)))
\* round r of a block function reads CHARYBDIS_RC at (r - 1) * 16 + 4 * i + j:
\* SubConstants is the first step of Round and the last of InverseRound
RoundIndices(t) ==
  (step = "steps" /\ thr[t].pc = "unit_rounds" /\ thr[t].op \in {"encrypt_block", "decrypt_block"}
     /\ thr'[t].i # thr[t].i) =>
    \A i \in 0..3, j \in 0..3 :
      /\ InTable(CHARYBDIS_RC, RC_Index(thr[t].i, i, j))
      /\ RC_Index(thr[t].i, i, j) \in (16 * (thr[t].i - 1))..((16 * (thr[t].i - 1)) + 15)
      /\ RC_Index(thr[t].i, i, j) \in 0..351
      /\ At(SubConstants(IF Decrypt(t) THEN thr'[t].state ELSE thr[t].state, thr[t].i), i, j)
           = XOR32(At(IF Decrypt(t) THEN thr'[t].state ELSE thr[t].state, i, j),
                   Entry(CHARYBDIS_RC, RC_Index(thr[t].i, i, j)))
\* the context build reads CHARYBDIS_RC at the same indices
BuildIndices(t) ==
  (thr[t].pc = "build" /\ thr'[t].pc = "done") =>
    \A round \in 1..CHARYBDIS_ROUNDS, i \in 0..3, j \in 0..3 :
      /\ InTable(CHARYBDIS_RC, RC_Index(round, i, j))
      /\ RC_Index(round, i, j) \in 0..351
      /\ At(ctx'[thr[t].ctxp].vec_round_constants[(round - 1) + 1], i, j)
           = mm256_set1_epi32(Entry(CHARYBDIS_RC, RC_Index(round, i, j)))

\* C30: constant-table indices stay in bounds. In every key expansion,
\* block encryption and decryption and context build, each index into
\* CHARYBDIS_RC is in 0..351 (round r reads words 16 * (r - 1) ..
\* 16 * (r - 1) + 15), each index into C_INIT is in 0..23, into RC_F in
\* 0..63, into KSC in 0..735, and each row position in the key-schedule
\* permutation is in 0..7, the two groups of four of a row being disjoint
\* and covering the row.
C30_TableIndicesInBounds ==
  [][\A t \in Threads :
       /\ LoadIndices(t)
       /\ PermIndices(t)
       /\ RowIndices(t)
       /\ InjectIndices(t)
       /\ RoundIndices(t)
       /\ BuildIndices(t)]_vars
C30_Witness ==
  /\ step = "steps"
  /\ thr[1].pc = "unit_final"
  /\ thr[1].op = "decrypt_block"
  /\ thr[1].i = 0
  /\ 1 \in built
  /\ subkeys # Schedule(1)
  /\ subkeys[CHARYBDIS_SUBKEYS] # subkeys[1]
====
